---- MODULE Spec2Model ----
(***************************************************************************)
(* Agentability: the SSRF-safe fetch primitive (safeFetch) and the         *)
(* evaluation run handler (runEvaluation / finalizeEvaluation).            *)
(*                                                                         *)
(* SpecFetch  one safeFetch call: validation, DNS vetting, manual redirect *)
(*            following, bounded body read.                                *)
(* SpecRuns   concurrent POST /v1/evaluate handlers over the two run       *)
(*            stores and the domain document.                              *)
(* SpecRetry  SpecRuns plus a caller that re-invokes finalizeEvaluation.   *)
(* SpecEval   one evaluatePublic call: discover, the repeat fetches, the   *)
(*            tool-endpoint probes, the checks and the scores.             *)
(* SpecRepeat fetchRepeated over every triple of call outcomes, and the    *)
(*            statuses of D2 and L1 that follow from its flags.            *)
(* SpecScore  aggregateScores over the check lists and the profiles.       *)
(* SpecMono   aggregateScores on a check list and on the list with one     *)
(*            check improved.                                              *)
(* SpecDiff   computeDiff over pairs of check lists.                       *)
(* SpecSampling  the two fetchRepeated calls of evaluatePublic, fetch by   *)
(*            fetch.                                                       *)
(* SpecRate   overlapping enforceRateLimit transactions on the counter     *)
(*            documents.                                                   *)
(***************************************************************************)
EXTENDS Integers, Sequences, FiniteSets, TLC

VARIABLES
    \* ---- safeFetch ----
    fpc,          \* position of the call: "validate","request","hopcheck","body","done"
    url,          \* the URL of the current (possibly recursive) safeFetch call
    nextUrl,      \* redirect target being vetted at line 234
    method,       \* options.method
    maxBytes,     \* options.maxBytes
    maxRedirects, \* options.maxRedirects of the current call
    maxRedirects0,\* options.maxRedirects of the outermost call
    redirectChain,\* the redirectChain argument of the current call
    response,     \* the response of the last fetch()
    chunks,       \* readBodyWithLimit: chunks pushed so far
    total,        \* readBodyWithLimit: total
    outcome,      \* "pending", "result", "error"
    errorMsg,     \* message of the Error thrown
    result,       \* the FetchResult returned
    \* ---- environment of safeFetch, recorded for the properties ----
    resolvesBlocked, \* whether the vetted hostname resolved to a blocked address
    vetAt,        \* "none", "call" (line 188), "hop" (line 234)
    cause,        \* why the call failed
    requests,     \* the HTTP requests sent, in order: the URL and the status answered
    connected,    \* the address the last HTTP request was delivered to
    streamed,     \* every byte the origin put on the body stream
    \* ---- runEvaluation: one handler per evaluation request (= run id) ----
    pc,            \* position of each handler
    domain,        \* the normalized domain of each request
    previousRunId, \* the latestRunId each handler read (0: undefined)
    outcomeOf,     \* what evaluatePublic settled with, per handler
    evaluation,    \* the handler's local `evaluation` (Null until finalize starts)
    detached,      \* the 8 s timer won the race: the handler has answered "running"
    reply,         \* the response of each handler
    retrying,      \* re-invocation of finalizeEvaluation for the run: "no", "yes", "done"
    \* ---- the stores ----
    runsOfDomain,  \* evaluations/{domain}/runs/{runId}
    runsRoot,      \* runs/{runId}
    latestRunId,   \* evaluations/{domain}.latestRunId (0: not set)
    now,           \* the clock read by new Date()
    faults,        \* store operations that have thrown
    firstFinal,    \* what the first complete finalize of a run left in the stores
    \* ---- evaluatePublic ----
    epc,           \* position of the evaluation
    state,         \* discover: the DiscoveryState (evidence apart)
    loopAt,        \* index of the candidate in DISCOVERY_ENDPOINTS / DOCS_ENDPOINTS
    evidence,      \* state.evidence: the EvidenceRecords pushed so far
    entrypointRepeat, \* fetchRepeated(primaryEntrypoint, 3)
    docsRepeat,    \* fetchRepeated(docsUrl, 3)
    docsText,      \* extractMeaningfulText of the first docs sample: its length
    mcpGetOk,      \* the GET of /mcp succeeded with explainer text
    mcpInitOk,     \* the initialize call of /mcp answered a valid JSON-RPC result
    evaluated,     \* what evaluatePublic returns: the result (checks, scores)
    \* ---- environment of evaluatePublic, recorded for the properties ----
    attempts,      \* fetchOnce calls made so far
    failedUrls,    \* the URLs whose fetchOnce call threw
    irregular,     \* fetches so far that threw or were redirected
    \* ---- fetchRepeated on its own ----
    rpc,           \* "start", "repeated", "judged"
    known,         \* whether the URL to fetch three times was discovered
    calls,         \* what each of the three fetchOnce calls does
    textLength,    \* length of the stripped text of the first sample's body
    repeated,      \* the RepeatFetchResult
    judged,        \* the statuses of D2 and L1 for that RepeatFetchResult
    \* ---- aggregateScores on its own ----
    spc,           \* "start", "scored"
    scoredChecks,  \* the checks argument
    scored,        \* what the call returned, with the profile argument
    rescored,      \* what a second call with the same arguments returned
    \* ---- computeDiff on its own ----
    dpc,           \* "start", "done"
    previousRun,   \* the previous argument (null or a DiffInput)
    currentRun,    \* the current argument
    diff,          \* what the call returned
    \* ---- the repeat sampling of evaluatePublic, fetch by fetch ----
    smPhase,       \* "entrypoint", "docs", "done": the fetchRepeated call reached
    smLoc,         \* "loop": between two iterations; "await": suspended at await fetchOnce
    smStarted,     \* fetchOnce calls made by the current fetchRepeated call
    inFlight,      \* the fetchOnce calls that were made and have not settled
    sampled,       \* the settled fetchOnce calls, in the order they settled
    hasEntrypoint, \* primaryEntrypoint is defined
    hasDocs,       \* docsUrl is defined
    \* ---- enforceRateLimit ----
    rlpc,          \* caller -> "idle", "get", "set", "admitted", "rejected"
    rlIp,          \* caller -> the ip argument
    rlRead,        \* caller -> the count its transaction read
    rateLimits,    \* docId -> count of the document (0: no document)
    admittedOf     \* ip -> requests of that ip that passed enforceRateLimit

fetchVars == <<fpc, url, nextUrl, method, maxBytes, maxRedirects, maxRedirects0,
               redirectChain, response, chunks, total, outcome, errorMsg, result,
               resolvesBlocked, vetAt, cause, requests, connected, streamed>>

runVars == <<pc, domain, previousRunId, outcomeOf, evaluation, detached, reply,
             retrying, runsOfDomain, runsRoot, latestRunId, now, faults, firstFinal>>

evalVars == <<epc, state, loopAt, evidence, entrypointRepeat, docsRepeat, docsText,
              mcpGetOk, mcpInitOk, evaluated, attempts, failedUrls, irregular>>

repeatVars == <<rpc, known, calls, textLength, repeated, judged>>

scoreVars == <<spc, scoredChecks, scored, rescored>>

diffVars == <<dpc, previousRun, currentRun, diff>>

sampleVars == <<smPhase, smLoc, smStarted, inFlight, sampled, hasEntrypoint, hasDocs>>

rateVars == <<rlpc, rlIp, rlRead, rateLimits, admittedOf>>

vars == <<fetchVars, runVars, evalVars, repeatVars, scoreVars, diffVars, sampleVars,
          rateVars>>

nonFetchVars == <<runVars, evalVars, repeatVars, scoreVars, diffVars,
                  sampleVars, rateVars>>

nonRunVars == <<fetchVars, evalVars, repeatVars, scoreVars, diffVars,
                  sampleVars, rateVars>>

nonEvalVars == <<fetchVars, runVars, repeatVars, scoreVars, diffVars,
                  sampleVars, rateVars>>

nonRepeatVars == <<fetchVars, runVars, evalVars, scoreVars, diffVars,
                  sampleVars, rateVars>>

nonScoreVars == <<fetchVars, runVars, evalVars, repeatVars, diffVars,
                  sampleVars, rateVars>>

nonSampleVars == <<fetchVars, runVars, evalVars, repeatVars, scoreVars, diffVars,
                   rateVars>>

nonRateVars == <<fetchVars, runVars, evalVars, repeatVars, scoreVars, diffVars,
                 sampleVars>>

nonDiffVars == <<fetchVars, runVars, evalVars, repeatVars, scoreVars,
                  sampleVars, rateVars>>

-----------------------------------------------------------------------------
(* Bounds of the model *)
MaxRedirectsOpt == 1     \* options.maxRedirects is undefined or in 0..MaxRedirectsOpt
MaxHops == 2             \* the origins answer at most MaxHops redirects in a row
MaxBytesOpt == 2         \* options.maxBytes is MaxBytesOpt - 1 or MaxBytesOpt
MaxChunk == 2            \* a chunk of the body stream has 1..MaxChunk bytes
MaxRecords == 2          \* a DNS answer has at most MaxRecords records
MaxRuns == 2             \* evaluation requests (run ids)
MaxFaults == 1           \* store operations that throw
MaxIrregular == 1        \* fetches of one evaluation that throw or are redirected
MaxHashes == 2           \* distinct bodies an origin answers to repeated fetches
MaxAbsent == 1           \* catalogue checks missing from a list handed to the scorer
MaxDiffChecks == 2       \* checks of a run handed to computeDiff
MaxCallers == 2          \* overlapping calls of enforceRateLimit

(* Program constants *)
DEFAULT_MAX_REDIRECTS == 5

-----------------------------------------------------------------------------
(* ipaddr.js: the range of an address *)
IpRange ==
    [a \in {"0.0.0.0", "127.0.0.1", "169.254.169.254", "fd00::1", "10.0.0.5",
            "100.64.0.1", "255.255.255.255", "224.0.0.1", "240.0.0.1",
            "93.184.216.34"} |->
        CASE a = "0.0.0.0" -> "unspecified"
          [] a = "127.0.0.1" -> "loopback"
          [] a = "169.254.169.254" -> "linkLocal"
          [] a = "fd00::1" -> "uniqueLocal"
          [] a = "10.0.0.5" -> "private"
          [] a = "100.64.0.1" -> "carrierGradeNat"
          [] a = "255.255.255.255" -> "broadcast"
          [] a = "224.0.0.1" -> "multicast"
          [] a = "240.0.0.1" -> "reserved"
          [] a = "93.184.216.34" -> "unicast"]

BLOCKED_HOSTNAMES == {<<"localhost">>, <<"localhost", "localdomain">>, <<"local">>}

BLOCKED_RANGES_NoUniqueLocal ==
    {"unspecified", "loopback", "linkLocal", "private", "carrierGradeNat", "broadcast",
     "multicast", "reserved"}

BLOCKED_RANGES == {"unspecified", "loopback", "linkLocal", "uniqueLocal", "private",
                   "carrierGradeNat", "broadcast", "multicast", "reserved"}

REDIRECT_STATUSES == {301, 302, 303, 307, 308}

(* Hostnames are sequences of labels; an IP literal is a single label. *)
IpLiterals == {"0.0.0.0", "127.0.0.1", "169.254.169.254", "10.0.0.5", "100.64.0.1",
               "255.255.255.255", "224.0.0.1", "240.0.0.1", "93.184.216.34"}

(* The addresses the modelled DNS may answer with. *)
DnsPool == {"93.184.216.34", "fd00::1"}

ToLowerCase(s) == IF s = "LOCALHOST" THEN "localhost" ELSE s

normalizeHostname(hostname) == [i \in DOMAIN hostname |-> ToLowerCase(hostname[i])]

IpaddrIsValid(h) == Len(h) = 1 /\ h[1] \in DOMAIN IpRange

isBlockedIp(ip) ==
    IF ip \notin DOMAIN IpRange THEN FALSE ELSE IpRange[ip] \in BLOCKED_RANGES

EndsWithDotLocal(h) == Len(h) >= 2 /\ h[Len(h)] = "local"

LookupError == <<"ENOTFOUND">>

(* assertPublicHost: "ok" or the message of the Error it throws, for the     *)
(* answer dns.lookup gives (LookupError when it rejects).                    *)
assertPublicHostFirstRecord(hostname, answer) ==
    LET normalized == normalizeHostname(hostname) IN
    IF normalized \in BLOCKED_HOSTNAMES \/ EndsWithDotLocal(normalized)
    THEN "Blocked hostname"
    ELSE IF IpaddrIsValid(normalized)
    THEN (IF isBlockedIp(normalized[1]) THEN "Blocked IP address" ELSE "ok")
    ELSE IF answer = LookupError THEN "getaddrinfo ENOTFOUND"
    ELSE IF Len(answer) = 0 THEN "DNS resolution failed"
    ELSE IF isBlockedIp(answer[1]) THEN "Blocked IP address"
    ELSE "ok"

assertPublicHost(hostname, answer) ==
    LET normalized == normalizeHostname(hostname) IN
    IF normalized \in BLOCKED_HOSTNAMES \/ EndsWithDotLocal(normalized)
    THEN "Blocked hostname"
    ELSE IF IpaddrIsValid(normalized)
    THEN (IF isBlockedIp(normalized[1]) THEN "Blocked IP address" ELSE "ok")
    ELSE IF answer = LookupError THEN "getaddrinfo ENOTFOUND"
    ELSE IF Len(answer) = 0 THEN "DNS resolution failed"
    ELSE IF \E i \in DOMAIN answer : isBlockedIp(answer[i]) THEN "Blocked IP address"
    ELSE "ok"

-----------------------------------------------------------------------------
(* URLs: the protocol and the host of the string; protocol "" is a string   *)
(* that new URL() rejects.                                                   *)
U(p, h) == [protocol |-> p, host |-> h]

NoUrl == U("none", <<>>)

PublicUrls == {U("http:", <<"a", "example">>), U("https:", <<"93.184.216.34">>)}

Urls ==
    PublicUrls
    \cup {U("http:", <<ip>>) : ip \in IpLiterals \ {"93.184.216.34"}}
    \cup {U("http:", <<"LOCALHOST">>), U("https:", <<"printer", "local">>),
          U("http:", <<"localhost", "localdomain">>), U("http:", <<"local">>),
          U("ftp:", <<"a", "example">>), U("", <<"a", "example">>)}

(* new URL(url): "TypeError" when the string is no URL *)
UrlIsValid(u) == u.protocol # ""

(* new URL(url).hostname: the URL parser lower-cases the host *)
UrlHostname(u) == [i \in DOMAIN u.host |-> ToLowerCase(u.host[i])]

(* The Location header of a response *)
Locations ==
    {[kind |-> "absent", target |-> NoUrl], [kind |-> "empty", target |-> NoUrl],
     [kind |-> "relative", target |-> NoUrl]}
    \cup {[kind |-> "absolute", target |-> u] : u \in Urls}

(* getRedirectUrl: new URL(location, currentUrl) *)
getRedirectUrl(currentUrl, location) ==
    IF location.kind = "relative" \/ location.target.protocol = ""
    THEN currentUrl
    ELSE location.target

Statuses == {200, 204, 300, 301, 307}

(* Body bytes: 65 is "A"; 255 is no valid UTF-8 and decodes to U+FFFD *)
Bytes == {65, 255}

NoResponse == [status |-> 0, hasBody |-> FALSE]

NoResult == [url |-> NoUrl, status |-> 0, bodyText |-> <<>>,
             sha256 |-> [kind |-> "undefined", of |-> <<>>],
             hasBodyText |-> FALSE, redirectChain |-> <<>>]

(* createHash("sha256").update(buffer).digest("hex"): injective on the bytes *)
Sha256(buffer) == [kind |-> "digest", of |-> buffer]

EmptyString == [kind |-> "empty", of |-> <<>>]

UndefinedSha == [kind |-> "undefined", of |-> <<>>]

(* options.maxRedirects: a number, or undefined *)
Given(n) == [defined |-> TRUE, value |-> n]

NotGiven == [defined |-> FALSE, value |-> 0]

(* buffer.toString("utf8") *)
Utf8Decode(buffer) == [i \in DOMAIN buffer |-> IF buffer[i] = 65 THEN "A" ELSE "U+FFFD"]

(* Buffer.concat(chunks) *)
RECURSIVE BufferConcat(_)
BufferConcat(cs) == IF cs = <<>> THEN <<>> ELSE Head(cs) \o BufferConcat(Tail(cs))

(* All sequences over S of length 0..n *)
SeqsUpTo(S, n) == UNION {[1..k -> S] : k \in 0..n}

DnsAnswers == SeqsUpTo(DnsPool, MaxRecords) \cup {LookupError}

(* The ranges section 4.1 of the specification lists as blocked *)
BlockedRangeNames == {"unspecified", "loopback", "linkLocal", "uniqueLocal", "private",
                      "carrierGradeNat", "broadcast", "multicast", "reserved"}

InBlockedRange(a) == a \in DOMAIN IpRange /\ IpRange[a] \in BlockedRangeNames

(* Whether the hostname of u resolves to an address in a blocked range, when *)
(* the DNS answers `answer` for it (a literal IP resolves to itself).        *)
HostResolvesBlocked(u, answer) ==
    IF ~UrlIsValid(u) THEN FALSE
    ELSE IF IpaddrIsValid(UrlHostname(u)) THEN InBlockedRange(UrlHostname(u)[1])
    ELSE answer # LookupError /\ \E i \in DOMAIN answer : InBlockedRange(answer[i])

(* readBodyWithLimit, line 158: total > maxBytes *)
TooLargeAtCap(t, cap) == t >= cap

TooLarge(t, cap) == t > cap

(* safeFetch, line 237: the budget handed to the recursive call *)
NextMaxRedirectsSame(m) == m

NextMaxRedirects(m) == m - 1

(* options.maxRedirects ?? DEFAULT_MAX_REDIRECTS *)
EffectiveMaxRedirects(opt) == IF opt.defined THEN opt.value ELSE DEFAULT_MAX_REDIRECTS

(* summarizeFetchError, lines 505-515: the failures a caller recognises by   *)
(* their message; any other message is passed through as it is.            *)
KindOfMessage(message) ==
    CASE message = "Response too large" -> "body_too_large"
      [] message = "DNS resolution failed" -> "dns_failed"
      [] message = "Blocked hostname" -> "blocked_host"
      [] message = "Blocked IP address" -> "blocked_ip"
      [] message = "Only http/https URLs are allowed" -> "invalid_scheme"
      [] message = "Too many redirects" -> "too_many_redirects"
      [] OTHER -> "transport_error"

Throw(msg, why) ==
    /\ fpc' = "done"
    /\ outcome' = "error"
    /\ errorMsg' = msg
    /\ cause' = why

-----------------------------------------------------------------------------
FetchStart ==
    /\ fpc = "validate"
    /\ url \in Urls
    /\ nextUrl = NoUrl
    /\ \E o \in {<<"GET", MaxBytesOpt - 1>>, <<"GET", MaxBytesOpt>>, <<"HEAD", MaxBytesOpt>>} :
         method = o[1] /\ maxBytes = o[2]
    /\ maxRedirects0 \in {Given(n) : n \in 0..MaxRedirectsOpt} \cup {NotGiven}
    /\ maxRedirects = maxRedirects0
    /\ redirectChain = <<>>
    /\ response = NoResponse
    /\ chunks = <<>>
    /\ total = 0
    /\ outcome = "pending"
    /\ errorMsg = ""
    /\ result = NoResult
    /\ resolvesBlocked = FALSE
    /\ vetAt = "none"
    /\ cause = "none"
    /\ requests = <<>>
    /\ connected = "none"
    /\ streamed = <<>>

(* safeFetch, lines 183-188: parse the URL, check the scheme, vet the host *)
Validate ==
    /\ fpc = "validate"
    /\ \E answer \in DnsAnswers :
         /\ vetAt' = "call"
         /\ resolvesBlocked' = HostResolvesBlocked(url, answer)
         /\ IF ~UrlIsValid(url)
            THEN Throw("Invalid URL", "invalid_url")
            ELSE IF url.protocol # "http:" /\ url.protocol # "https:"
            THEN Throw("Only http/https URLs are allowed", "invalid_scheme")
            ELSE LET r == assertPublicHost(UrlHostname(url), answer) IN
                 IF r = "ok"
                 THEN /\ fpc' = "request"
                      /\ UNCHANGED <<outcome, errorMsg, cause>>
                 ELSE Throw(r, CASE r = "Blocked hostname" -> "blocked_host"
                                 [] r = "Blocked IP address" -> "blocked_ip"
                                 [] OTHER -> "dns_failed")
    /\ UNCHANGED <<url, nextUrl, method, maxBytes, maxRedirects, maxRedirects0,
                   redirectChain, response, chunks, total, result, requests,
                   connected, streamed>>

Return(status, hasText, text, sha) ==
    /\ fpc' = "done"
    /\ outcome' = "result"
    /\ result' = [url |-> url, status |-> status, hasBodyText |-> hasText,
                  bodyText |-> text, sha256 |-> sha, redirectChain |-> redirectChain]

(* The address the transport connects to: it resolves the host on its own *)
TransportAddresses(u) ==
    IF IpaddrIsValid(UrlHostname(u)) THEN {UrlHostname(u)[1]} ELSE DnsPool

(* safeFetch, lines 199-212: fetch() rejects (connection refused, timers) *)
RequestFails ==
    /\ fpc = "request"
    /\ Throw("fetch failed", "transport_error")
    /\ UNCHANGED <<url, nextUrl, method, maxBytes, maxRedirects, maxRedirects0,
                   redirectChain, response, chunks, total, result, resolvesBlocked,
                   vetAt, requests, connected, streamed>>

(* safeFetch, lines 199-256: fetch() answers; redirect branch or final response *)
Request ==
    /\ fpc = "request"
    /\ \E addr \in TransportAddresses(url), status \in Statuses,
          location \in Locations, hasBody \in BOOLEAN :
         /\ (status = 204 \/ method = "HEAD") => ~hasBody
         /\ (status \in REDIRECT_STATUSES /\ location.kind # "absent")
               => Len(redirectChain) < MaxHops
         /\ status \notin REDIRECT_STATUSES => location.kind = "absent"
         /\ requests' = Append(requests, [url |-> url, status |-> status])
         /\ connected' = addr
         /\ response' = [status |-> status, hasBody |-> hasBody]
         /\ IF status \in REDIRECT_STATUSES /\ location.kind # "absent"
            THEN IF EffectiveMaxRedirects(maxRedirects) <= 0
                 THEN /\ Throw("Too many redirects", "too_many_redirects")
                      /\ UNCHANGED <<nextUrl, result>>
                 ELSE IF location.kind = "empty"
                 THEN /\ Throw("Redirect without location", "no_location")
                      /\ UNCHANGED <<nextUrl, result>>
                 ELSE LET next == getRedirectUrl(url, location) IN
                      IF next.protocol # "http:" /\ next.protocol # "https:"
                      THEN /\ Throw("Redirect to non-http(s) URL", "invalid_scheme")
                           /\ UNCHANGED <<nextUrl, result>>
                      ELSE /\ fpc' = "hopcheck"
                           /\ nextUrl' = next
                           /\ UNCHANGED <<outcome, errorMsg, cause, result>>
            ELSE IF status # 204 /\ status # 304 /\ method # "HEAD"
                 THEN IF ~hasBody
                      THEN /\ Return(status, TRUE, <<>>, EmptyString)
                           /\ UNCHANGED <<nextUrl, errorMsg, cause>>
                      ELSE /\ fpc' = "body"
                           /\ UNCHANGED <<nextUrl, outcome, errorMsg, cause, result>>
                 ELSE /\ Return(status, FALSE, <<>>, UndefinedSha)
                      /\ UNCHANGED <<nextUrl, errorMsg, cause>>
    /\ UNCHANGED <<url, method, maxBytes, maxRedirects, maxRedirects0, redirectChain,
                   chunks, total, resolvesBlocked, vetAt, streamed>>

(* safeFetch, lines 234-237: vet the redirect target, then recurse *)
HopCheck ==
    /\ fpc = "hopcheck"
    /\ \E answer \in DnsAnswers :
         /\ vetAt' = "hop"
         /\ resolvesBlocked' = HostResolvesBlocked(nextUrl, answer)
         /\ LET r == assertPublicHost(UrlHostname(nextUrl), answer) IN
            IF r = "ok"
            THEN /\ redirectChain' =
                      Append(redirectChain, [url |-> url, status |-> response.status])
                 /\ url' = nextUrl
                 /\ maxRedirects' = Given(NextMaxRedirects(EffectiveMaxRedirects(maxRedirects)))
                 /\ fpc' = "validate"
                 /\ nextUrl' = NoUrl
                 /\ response' = NoResponse
                 /\ UNCHANGED <<outcome, errorMsg, cause>>
            ELSE /\ Throw(r, CASE r = "Blocked hostname" -> "blocked_host"
                               [] r = "Blocked IP address" -> "blocked_ip"
                               [] OTHER -> "dns_failed")
                 /\ UNCHANGED <<redirectChain, url, maxRedirects, nextUrl, response>>
    /\ UNCHANGED <<method, maxBytes, maxRedirects0, chunks, total, result, requests,
                   connected, streamed>>

(* readBodyWithLimit, lines 153-163: one reader.read() that yields a chunk *)
ReadChunk ==
    /\ fpc = "body"
    /\ Len(streamed) <= maxBytes
    /\ \E value \in SeqsUpTo(Bytes, MaxChunk) \ {<<>>} :
         /\ streamed' = streamed \o value
         /\ total' = total + Len(value)
         /\ IF TooLarge(total + Len(value), maxBytes)
            THEN /\ Throw("Response too large", "body_too_large")
                 /\ UNCHANGED chunks
            ELSE /\ chunks' = Append(chunks, value)
                 /\ UNCHANGED <<fpc, outcome, errorMsg, cause>>
    /\ UNCHANGED <<url, nextUrl, method, maxBytes, maxRedirects, maxRedirects0,
                   redirectChain, response, result, resolvesBlocked, vetAt, requests,
                   connected>>

(* readBodyWithLimit, lines 155 and 164-170, and safeFetch, lines 250-269 *)
ReadDone ==
    /\ fpc = "body"
    /\ LET buffer == BufferConcat(chunks) IN
       Return(response.status, TRUE, Utf8Decode(buffer), Sha256(buffer))
    /\ UNCHANGED <<url, nextUrl, method, maxBytes, maxRedirects, maxRedirects0,
                   redirectChain, response, chunks, total, errorMsg, resolvesBlocked,
                   vetAt, cause, requests, connected, streamed>>

(* safeFetch, line 197: the total timer aborts the body read *)
ReadAborted ==
    /\ fpc = "body"
    /\ Throw("This operation was aborted", "transport_error")
    /\ UNCHANGED <<url, nextUrl, method, maxBytes, maxRedirects, maxRedirects0,
                   redirectChain, response, chunks, total, result, resolvesBlocked,
                   vetAt, requests, connected, streamed>>


-----------------------------------------------------------------------------
(* runEvaluation and finalizeEvaluation (apps/functions/src/index.ts)        *)

Runs == 1..MaxRuns

Domains == {"a.example", "b.example"}

(* What evaluatePublic resolves with: the score and the check statuses *)
EvaluationResults ==
    {[status |-> "complete", score |-> 40, checks |-> <<"fail">>],
     [status |-> "complete", score |-> 90, checks |-> <<"pass">>]}

Null == [isNull |-> TRUE]

NoDoc == [exists |-> FALSE]

(* ref.set(data, { merge: true }): the fields of data replace those of the   *)
(* document, the other fields stay.                                          *)
Merge(doc, data) ==
    [f \in (DOMAIN doc \cup DOMAIN data) \cup {"exists"} |->
        IF f = "exists" THEN TRUE
        ELSE IF f \in DOMAIN data THEN data[f] ELSE doc[f]]

(* ref.set(data): the document becomes data *)
SetDoc(data) == Merge([exists |-> TRUE], data)

(* Drop the fields whose value is undefined *)
WithPrevious(data, prev) ==
    IF prev = 0 THEN data ELSE Merge(data, [previousRunId |-> prev])

(* runEvaluation, lines 738-746 *)
baseRun(h) ==
    WithPrevious([runId |-> h, domain |-> domain[h], status |-> "running"],
                 previousRunId[h])

(* computeDiff as finalizeEvaluation uses it, lines 768-781: the score delta *)
(* and the statuses compared                                                 *)
diffSummaryOf(previous, current) ==
    [scoreDelta |-> current.score - previous.score,
     from |-> previous.checks, to |-> current.checks]

(* What reading a field a document does not have yields *)
Absent(f) ==
    CASE f = "status" -> "absent"
      [] f = "score" -> -1
      [] f = "completedAt" -> 0
      [] f = "checks" -> <<>>
      [] OTHER -> [absent |-> TRUE]

Field(doc, f) == IF f \in DOMAIN doc THEN doc[f] ELSE Absent(f)

RunsStart ==
    /\ pc = [h \in Runs |-> "idle"]
    /\ domain = [h \in Runs |-> "none"]
    /\ previousRunId = [h \in Runs |-> 0]
    /\ outcomeOf = [h \in Runs |-> Null]
    /\ evaluation = [h \in Runs |-> Null]
    /\ detached = [h \in Runs |-> FALSE]
    /\ reply = [h \in Runs |-> "none"]
    /\ retrying = [h \in Runs |-> "no"]
    /\ runsOfDomain = [h \in Runs |-> NoDoc]
    /\ runsRoot = [h \in Runs |-> NoDoc]
    /\ latestRunId = [d \in Domains |-> 0]
    /\ now = 1
    /\ faults = 0
    /\ firstFinal = [h \in Runs |-> Null]

(* The handlers while a safeFetch call is studied on its own *)
RunsParked == RunsStart

(* The safeFetch call while the handlers are studied on their own *)
FetchParked ==
    /\ fpc = "done"
    /\ url = NoUrl
    /\ nextUrl = NoUrl
    /\ method = "GET"
    /\ maxBytes = 0
    /\ maxRedirects0 = NotGiven
    /\ maxRedirects = NotGiven
    /\ redirectChain = <<>>
    /\ response = NoResponse
    /\ chunks = <<>>
    /\ total = 0
    /\ outcome = "pending"
    /\ errorMsg = ""
    /\ result = NoResult
    /\ resolvesBlocked = FALSE
    /\ vetAt = "none"
    /\ cause = "none"
    /\ requests = <<>>
    /\ connected = "none"
    /\ streamed = <<>>

(* A store operation throws *)
CanFault == faults < MaxFaults

(* The catch a throw inside the handler lands in: the try/catch of           *)
(* runEvaluation (line 873), or the .catch of the detached promise (822)    *)
CatchOf(h) ==
    IF retrying[h] = "yes" THEN "done"
    ELSE IF detached[h] THEN "asyncCatchRun" ELSE "catchRun"

Thrown(h) ==
    /\ CanFault
    /\ faults' = faults + 1
    /\ pc' = [pc EXCEPT ![h] = CatchOf(h)]
    /\ retrying' = [retrying EXCEPT ![h] = IF @ = "yes" THEN "done" ELSE @]

(* A rejection that comes after the run record was created *)
RejectAfterCreate(h) ==
    /\ pc[h] = "idle"
    /\ \A g \in Runs : g < h => pc[g] # "idle"
    /\ runsOfDomain' = [runsOfDomain EXCEPT ![h] = SetDoc(baseRun(h))]
    /\ pc' = [pc EXCEPT ![h] = "rejected"]
    /\ reply' = [reply EXCEPT ![h] = "rejected"]
    /\ UNCHANGED <<domain, previousRunId, outcomeOf, evaluation, detached, retrying,
                   runsRoot, latestRunId, now, faults, firstFinal>>

(* runEvaluation, lines 690-724: the request is rejected (rate limit,        *)
(* invalid request, unresolvable domain) or gets a run id                    *)
Reject(h) ==
    /\ pc[h] = "idle"
    /\ \A g \in Runs : g < h => pc[g] # "idle"
    /\ pc' = [pc EXCEPT ![h] = "rejected"]
    /\ reply' = [reply EXCEPT ![h] = "rejected"]
    /\ UNCHANGED <<domain, previousRunId, outcomeOf, evaluation, detached, retrying,
                   runsOfDomain, runsRoot, latestRunId, now, faults, firstFinal>>

Start(h) ==
    /\ pc[h] = "idle"
    /\ \A g \in Runs : g < h => pc[g] # "idle"
    /\ \E d \in Domains : domain' = [domain EXCEPT ![h] = d]
    /\ pc' = [pc EXCEPT ![h] = "readDomain"]
    /\ UNCHANGED <<previousRunId, outcomeOf, evaluation, detached, reply, retrying,
                   runsOfDomain, runsRoot, latestRunId, now, faults, firstFinal>>

(* runEvaluation, lines 729-733: read the domain's latestRunId *)
ReadDomain(h) ==
    /\ pc[h] = "readDomain"
    /\ \/ /\ previousRunId' = [previousRunId EXCEPT ![h] = latestRunId[domain[h]]]
          /\ pc' = [pc EXCEPT ![h] = "createRun"]
          /\ UNCHANGED <<faults, retrying>>
       \/ Thrown(h) /\ UNCHANGED previousRunId
    /\ UNCHANGED <<domain, outcomeOf, evaluation, detached, reply, runsOfDomain,
                   runsRoot, latestRunId, now, firstFinal>>

(* runEvaluation, line 748: runRef.set(baseRun) *)
CreateRun(h) ==
    /\ pc[h] = "createRun"
    /\ \/ /\ runsOfDomain' = [runsOfDomain EXCEPT ![h] = SetDoc(baseRun(h))]
          /\ pc' = [pc EXCEPT ![h] = "createRoot"]
          /\ UNCHANGED <<faults, retrying>>
       \/ Thrown(h) /\ UNCHANGED runsOfDomain
    /\ UNCHANGED <<domain, previousRunId, outcomeOf, evaluation, detached, reply,
                   runsRoot, latestRunId, now, firstFinal>>

(* runEvaluation, line 749: runRootRef.set(baseRun) *)
CreateRoot(h) ==
    /\ pc[h] = "createRoot"
    /\ \/ /\ runsRoot' = [runsRoot EXCEPT ![h] = SetDoc(baseRun(h))]
          /\ pc' = [pc EXCEPT ![h] = "evaluating"]
          /\ UNCHANGED <<faults, retrying>>
       \/ Thrown(h) /\ UNCHANGED runsRoot
    /\ UNCHANGED <<domain, previousRunId, outcomeOf, evaluation, detached, reply,
                   runsOfDomain, latestRunId, now, firstFinal>>

(* runEvaluation, lines 811-821 and 859-860: evaluatePublic resolves *)
EvaluationResolves(h) ==
    /\ pc[h] = "evaluating"
    /\ \E r \in EvaluationResults : outcomeOf' = [outcomeOf EXCEPT ![h] = r]
    /\ pc' = [pc EXCEPT ![h] = "upload"]
    /\ UNCHANGED <<domain, previousRunId, evaluation, detached, reply, retrying,
                   runsOfDomain, runsRoot, latestRunId, now, faults, firstFinal>>

(* runEvaluation, lines 813 and 822, 873: evaluatePublic rejects *)
EvaluationRejects(h) ==
    /\ pc[h] = "evaluating"
    /\ pc' = [pc EXCEPT ![h] = IF detached[h] THEN "asyncCatchRun" ELSE "catchRun"]
    /\ UNCHANGED <<domain, previousRunId, outcomeOf, evaluation, detached, reply,
                   retrying, runsOfDomain, runsRoot, latestRunId, now, faults,
                   firstFinal>>

(* runEvaluation, lines 812-857: the 8 s timer wins the race; the handler    *)
(* answers "running" and the evaluation goes on                              *)
DeadlineExpires(h) ==
    /\ pc[h] = "evaluating"
    /\ ~detached[h]
    /\ detached' = [detached EXCEPT ![h] = TRUE]
    /\ reply' = [reply EXCEPT ![h] = "running"]
    /\ UNCHANGED <<pc, domain, previousRunId, outcomeOf, evaluation, retrying,
                   runsOfDomain, runsRoot, latestRunId, now, faults, firstFinal>>

(* The fields of a run the finalize step persists, and the domain's pointer  *)
Persisted(h, byDomain, root, latest) ==
    [domainStore |-> [f \in {"status", "score", "checks", "diffSummary"} |->
                          Field(byDomain[h], f)],
     rootStore |-> [f \in {"status", "score", "checks", "diffSummary"} |->
                          Field(root[h], f)],
     latestRunId |-> latest[domain[h]]]

(* finalizeEvaluation, lines 752-761: evaluation = {...result, runId,        *)
(* previousRunId}, then the evidence bundle is uploaded                      *)
Upload(h) ==
    /\ pc[h] = "upload"
    /\ evaluation' = [evaluation EXCEPT ![h] =
            WithPrevious(Merge(outcomeOf[h], [runId |-> h]), previousRunId[h])]
    /\ \/ /\ pc' = [pc EXCEPT ![h] = "readPrevious"]
          /\ UNCHANGED <<faults, retrying>>
       \/ Thrown(h)
    /\ UNCHANGED <<domain, previousRunId, outcomeOf, detached, reply, runsOfDomain,
                   runsRoot, latestRunId, now, firstFinal>>

(* The run the diff is computed against, lines 764-766 *)
PreviousOfLatest(h) == latestRunId[domain[h]]

PreviousOf(h) == previousRunId[h]

(* finalizeEvaluation, lines 763-791: read the previous run, compute the     *)
(* diff, stamp status "complete" and completedAt                             *)
ReadPrevious(h) ==
    /\ pc[h] = "readPrevious"
    /\ \/ /\ LET prev == PreviousOf(h)
                 hasPrevious == prev # 0 /\ runsOfDomain[prev].exists
                 stamped == Merge(evaluation[h],
                                  [status |-> "complete", completedAt |-> now])
             IN evaluation' = [evaluation EXCEPT ![h] =
                    IF hasPrevious
                    THEN Merge(stamped, [diffSummary |->
                                 diffSummaryOf(runsOfDomain[prev], evaluation[h])])
                    ELSE stamped]
          /\ now' = now + 1
          /\ pc' = [pc EXCEPT ![h] = "setRun"]
          /\ UNCHANGED <<faults, retrying>>
       \/ /\ PreviousOf(h) # 0
          /\ Thrown(h)
          /\ UNCHANGED <<evaluation, now>>
    /\ UNCHANGED <<domain, previousRunId, outcomeOf, detached, reply, runsOfDomain,
                   runsRoot, latestRunId, firstFinal>>

(* finalizeEvaluation, line 793: runRef.set(evaluation, { merge: true }) *)
SetRun(h) ==
    /\ pc[h] = "setRun"
    /\ \/ /\ runsOfDomain' = [runsOfDomain EXCEPT ![h] = Merge(@, evaluation[h])]
          /\ pc' = [pc EXCEPT ![h] = "setRoot"]
          /\ UNCHANGED <<faults, retrying>>
       \/ Thrown(h) /\ UNCHANGED runsOfDomain
    /\ UNCHANGED <<domain, previousRunId, outcomeOf, evaluation, detached, reply,
                   runsRoot, latestRunId, now, firstFinal>>

(* finalizeEvaluation, line 794: runRootRef.set(evaluation, { merge: true }) *)
SetRoot(h) ==
    /\ pc[h] = "setRoot"
    /\ \/ /\ runsRoot' = [runsRoot EXCEPT ![h] = Merge(@, evaluation[h])]
          /\ pc' = [pc EXCEPT ![h] = "setDomain"]
          /\ UNCHANGED <<faults, retrying>>
       \/ Thrown(h) /\ UNCHANGED runsRoot
    /\ UNCHANGED <<domain, previousRunId, outcomeOf, evaluation, detached, reply,
                   runsOfDomain, latestRunId, now, firstFinal>>

(* A domainRef.set whose throw comes after the write was applied *)
SetDomainThrowsLate(h) ==
    /\ pc[h] = "setDomain"
    /\ latestRunId' = [latestRunId EXCEPT ![domain[h]] = h]
    /\ Thrown(h)
    /\ UNCHANGED <<domain, previousRunId, outcomeOf, evaluation, detached, reply,
                   runsOfDomain, runsRoot, now, firstFinal>>

(* finalizeEvaluation, lines 796-808, and runEvaluation, lines 860-872:      *)
(* domainRef.set({ latestRunId: runId }), then the handler answers           *)
SetDomain(h) ==
    /\ pc[h] = "setDomain"
    /\ \/ /\ latestRunId' = [latestRunId EXCEPT ![domain[h]] = h]
          /\ pc' = [pc EXCEPT ![h] = "done"]
          /\ reply' = [reply EXCEPT ![h] = IF detached[h] THEN @ ELSE "complete"]
          /\ retrying' = [retrying EXCEPT ![h] = IF @ = "yes" THEN "done" ELSE @]
          /\ firstFinal' = [firstFinal EXCEPT ![h] =
                IF @ = Null THEN Persisted(h, runsOfDomain, runsRoot, latestRunId')
                ELSE @]
          /\ UNCHANGED faults
       \/ Thrown(h) /\ UNCHANGED <<latestRunId, reply, firstFinal>>
    /\ UNCHANGED <<domain, previousRunId, outcomeOf, evaluation, detached,
                   runsOfDomain, runsRoot, now>>

(* The document the catch of runEvaluation writes, lines 881-888 *)
failedRun(h) ==
    Merge(IF evaluation[h] = Null THEN [runId |-> h] ELSE evaluation[h],
          [runId |-> h, domain |-> domain[h], status |-> "failed", error |-> TRUE,
           completedAt |-> now])

(* The document the .catch of the detached promise writes, lines 825-831 *)
failedRunAsync(h) ==
    [runId |-> h, domain |-> domain[h], status |-> "failed", error |-> TRUE,
     completedAt |-> now]

(* A write of a catch block throws: nothing catches it *)
Crashed(h) ==
    /\ CanFault
    /\ faults' = faults + 1
    /\ pc' = [pc EXCEPT ![h] = "crashed"]

(* runEvaluation, lines 873-890 *)
CatchRun(h) ==
    /\ pc[h] = "catchRun"
    /\ \/ /\ runsOfDomain' = [runsOfDomain EXCEPT ![h] = Merge(@, failedRun(h))]
          /\ now' = now + 1
          /\ pc' = [pc EXCEPT ![h] = "catchRoot"]
          /\ UNCHANGED faults
       \/ Crashed(h) /\ UNCHANGED <<runsOfDomain, now>>
    /\ UNCHANGED <<domain, previousRunId, outcomeOf, evaluation, detached, reply,
                   retrying, runsRoot, latestRunId, firstFinal>>

(* runEvaluation, lines 891-919 *)
CatchRoot(h) ==
    /\ pc[h] = "catchRoot"
    /\ \/ /\ runsRoot' = [runsRoot EXCEPT ![h] = Merge(@, failedRun(h))]
          /\ now' = now + 1
          /\ pc' = [pc EXCEPT ![h] = "done"]
          /\ reply' = [reply EXCEPT ![h] = "failed"]
          /\ UNCHANGED faults
       \/ Crashed(h) /\ UNCHANGED <<runsRoot, now, reply>>
    /\ UNCHANGED <<domain, previousRunId, outcomeOf, evaluation, detached, retrying,
                   runsOfDomain, latestRunId, firstFinal>>

(* runEvaluation, lines 822-833 *)
AsyncCatchRun(h) ==
    /\ pc[h] = "asyncCatchRun"
    /\ \/ /\ runsOfDomain' = [runsOfDomain EXCEPT ![h] = Merge(@, failedRunAsync(h))]
          /\ now' = now + 1
          /\ pc' = [pc EXCEPT ![h] = "asyncCatchRoot"]
          /\ UNCHANGED faults
       \/ Crashed(h) /\ UNCHANGED <<runsOfDomain, now>>
    /\ UNCHANGED <<domain, previousRunId, outcomeOf, evaluation, detached, reply,
                   retrying, runsRoot, latestRunId, firstFinal>>

(* runEvaluation, lines 834-844 *)
AsyncCatchRoot(h) ==
    /\ pc[h] = "asyncCatchRoot"
    /\ \/ /\ runsRoot' = [runsRoot EXCEPT ![h] = Merge(@, failedRunAsync(h))]
          /\ now' = now + 1
          /\ pc' = [pc EXCEPT ![h] = "done"]
          /\ UNCHANGED faults
       \/ Crashed(h) /\ UNCHANGED <<runsRoot, now>>
    /\ UNCHANGED <<domain, previousRunId, outcomeOf, evaluation, detached, reply,
                   retrying, runsOfDomain, latestRunId, firstFinal>>

(* A caller re-invokes finalizeEvaluation(result, evidence) of a run whose   *)
(* finalize has completed (section 5: idempotent under retry)                *)
RetryFinalize(h) ==
    /\ pc[h] = "done"
    /\ firstFinal[h] # Null
    /\ retrying[h] = "no"
    /\ retrying' = [retrying EXCEPT ![h] = "yes"]
    /\ pc' = [pc EXCEPT ![h] = "upload"]
    /\ UNCHANGED <<domain, previousRunId, outcomeOf, evaluation, detached, reply,
                   runsOfDomain, runsRoot, latestRunId, now, faults, firstFinal>>

-----------------------------------------------------------------------------
(* The scorer: scoreStatus, aggregateScores, gradeFromScore *)

Pillars == <<"discovery", "callableSurface", "llmIngestion", "trust", "reliability">>

PillarSet == {Pillars[i] : i \in DOMAIN Pillars}

(* The catalogue: identifier and pillar of each check, in its order *)
CHECKS ==
    <<[id |-> "D1", pillar |-> "discovery"],
      [id |-> "D2", pillar |-> "discovery"],
      [id |-> "C2", pillar |-> "callableSurface"],
      [id |-> "C3", pillar |-> "callableSurface"],
      [id |-> "L1", pillar |-> "llmIngestion"],
      [id |-> "T1", pillar |-> "trust"],
      [id |-> "T2", pillar |-> "trust"],
      [id |-> "R3", pillar |-> "reliability"]>>

CheckIds == {CHECKS[i].id : i \in DOMAIN CHECKS}

Profiles == {"auto", "api_product", "docs_platform", "content", "hybrid"}

(* The weights, in hundredths: 0.3 is 30 *)
PROFILE_WEIGHTS_ContentTenfold ==
    [auto |-> [discovery |-> 30, callableSurface |-> 20, llmIngestion |-> 20,
               trust |-> 10, reliability |-> 20],
     api_product |-> [discovery |-> 35, callableSurface |-> 30, llmIngestion |-> 15,
                      trust |-> 10, reliability |-> 10],
     docs_platform |-> [discovery |-> 25, callableSurface |-> 15, llmIngestion |-> 35,
                        trust |-> 10, reliability |-> 15],
     content |-> [discovery |-> 30, callableSurface |-> 50, llmIngestion |-> 35,
                  trust |-> 10, reliability |-> 20],
     hybrid |-> [discovery |-> 30, callableSurface |-> 20, llmIngestion |-> 25,
                 trust |-> 10, reliability |-> 15]]

PROFILE_WEIGHTS ==
    [auto |-> [discovery |-> 30, callableSurface |-> 20, llmIngestion |-> 20,
               trust |-> 10, reliability |-> 20],
     api_product |-> [discovery |-> 35, callableSurface |-> 30, llmIngestion |-> 15,
                      trust |-> 10, reliability |-> 10],
     docs_platform |-> [discovery |-> 25, callableSurface |-> 15, llmIngestion |-> 35,
                        trust |-> 10, reliability |-> 15],
     content |-> [discovery |-> 30, callableSurface |-> 5, llmIngestion |-> 35,
                  trust |-> 10, reliability |-> 20],
     hybrid |-> [discovery |-> 30, callableSurface |-> 20, llmIngestion |-> 25,
                 trust |-> 10, reliability |-> 15]]

(* The contribution of a status, in halves: pass 1, warn 0.5, else 0 *)
scoreStatusWarnAsFail(status) == IF status = "pass" THEN 2 ELSE 0

(* A scale on which warn is worth more than pass *)
scoreStatusWarnAbovePass(status) ==
    IF status = "pass" THEN 2 ELSE IF status = "warn" THEN 3 ELSE 0

scoreStatus(status) ==
    IF status = "pass" THEN 2 ELSE IF status = "warn" THEN 1 ELSE 0

(* Math.round(num / den) for num >= 0, den > 0: halves round up *)
MathRound(num, den) == (2 * num + den) \div (2 * den)

(* checks.find((item) => item.id === id): the index of the first, or 0 *)
FindCheck(checks, id) ==
    IF \E i \in DOMAIN checks : checks[i].id = id
    THEN CHOOSE i \in DOMAIN checks :
            /\ checks[i].id = id
            /\ \A j \in DOMAIN checks : checks[j].id = id => i <= j
    ELSE 0

(* The loop over CHECKS: points (in halves) and max of a pillar after the    *)
(* first n catalogue checks                                                  *)
RECURSIVE pillarTotals(_, _, _)
pillarTotals(checks, pillar, n) ==
    IF n = 0 THEN [points |-> 0, max |-> 0]
    ELSE LET rest == pillarTotals(checks, pillar, n - 1)
             i == FindCheck(checks, CHECKS[n].id)
         IN IF CHECKS[n].pillar # pillar \/ i = 0 THEN rest
            ELSE [points |-> rest.points + scoreStatus(checks[i].status),
                  max |-> rest.max + 1]

pillarScoresOf(checks) ==
    [pillar \in PillarSet |->
        LET t == pillarTotals(checks, pillar, Len(CHECKS))
        IN IF t.max # 0 THEN MathRound(t.points * 100, 2 * t.max) ELSE 0]

gradeFromScore(score) ==
    IF score >= 90 THEN "A"
    ELSE IF score >= 80 THEN "B"
    ELSE IF score >= 70 THEN "C"
    ELSE "Not AI-Native"

(* totalScore, in hundredths *)
totalScoreOf(pillarScores, profile) ==
    LET weights == PROFILE_WEIGHTS[profile]
    IN pillarScores["discovery"] * weights["discovery"]
       + pillarScores["callableSurface"] * weights["callableSurface"]
       + pillarScores["llmIngestion"] * weights["llmIngestion"]
       + pillarScores["trust"] * weights["trust"]
       + pillarScores["reliability"] * weights["reliability"]

aggregateScores(checks, profile) ==
    LET pillarScores == pillarScoresOf(checks)
        roundedScore == MathRound(totalScoreOf(pillarScores, profile), 100)
    IN [pillarScores |-> pillarScores, score |-> roundedScore,
        grade |-> gradeFromScore(roundedScore)]

-----------------------------------------------------------------------------
(* fetchRepeated and the two checks that read its flags *)

Undef == "undefined"

JsonLikeTypes == {"application/json"}

YamlLikeTypes == {"application/yaml"}

TextTypes == {"text/html"}

isJsonLike(contentType) == contentType \in JsonLikeTypes

isYamlLike(contentType) == contentType \in YamlLikeTypes

(* What one fetchOnce call of the loop does: it throws, or it returns *)
ThrownCall ==
    [thrown |-> TRUE,
     result |-> [url |-> Undef, status |-> 0, sha256 |-> Undef, contentType |-> Undef]]

ReturnedCall(requested, status, sha256, contentType) ==
    [thrown |-> FALSE,
     result |-> [url |-> requested, status |-> status, sha256 |-> sha256,
                 contentType |-> contentType]]

stableOf(results) ==
    \A i \in DOMAIN results :
        /\ results[i].status = results[1].status
        /\ results[i].sha256 = results[1].sha256

okOf(results) ==
    \A i \in DOMAIN results : results[i].status >= 200 /\ results[i].status < 300

contentTypeOkOf(results, ok) ==
    LET type == results[1].contentType
    IN ok /\ (isJsonLike(type) \/ isYamlLike(type) \/ type \in TextTypes)

(* fetchRepeated(url, times), times = Len(outcomes) > 0: outcomes[i] is what *)
(* the i-th fetchOnce call does; a thrown call leaves a synthetic result     *)
fetchRepeated(requested, outcomes) ==
    LET results == [i \in DOMAIN outcomes |->
                       IF outcomes[i].thrown
                       THEN [url |-> requested, status |-> 0, sha256 |-> Undef,
                             contentType |-> Undef]
                       ELSE outcomes[i].result]
        errors == [i \in DOMAIN outcomes |->
                       IF outcomes[i].thrown THEN "fetch failed" ELSE "none"]
        ok == okOf(results)
    IN [url |-> requested, results |-> results, errors |-> errors,
        stable |-> stableOf(results), ok |-> ok,
        contentTypeOk |-> contentTypeOkOf(results, ok)]

(* A RepeatFetchResult variable that is undefined *)
NoRepeat ==
    [url |-> Undef, results |-> <<>>, errors |-> <<>>, stable |-> FALSE, ok |-> FALSE,
     contentTypeOk |-> FALSE]

(* D2 when the stability of the samples is not looked at *)
d2StatusIgnoringStability(rep) ==
    IF rep.url # Undef
    THEN IF rep.ok
         THEN IF rep.contentTypeOk THEN "pass" ELSE "warn"
         ELSE "fail"
    ELSE "fail"

(* evaluatePublic, lines 1001-1011 *)
d2StatusOf(rep) ==
    IF rep.url # Undef
    THEN IF rep.ok
         THEN IF rep.stable /\ rep.contentTypeOk THEN "pass" ELSE "warn"
         ELSE "fail"
    ELSE "fail"

(* extractMeaningfulText(...).length of a thin page and of a full one *)
MeaningfulLength == 200

TextLengths == {0, MeaningfulLength - 1, MeaningfulLength}

(* evaluatePublic, lines 853-862: docsText.length, bodyLength being the      *)
(* length of the stripped text of the first sample                           *)
docsTextOf(rep, bodyLength) == IF rep.url # Undef /\ rep.ok THEN bodyLength ELSE 0

(* evaluatePublic, lines 1065-1074 *)
l1StatusOf(rep, docsTextLength) ==
    IF rep.url # Undef
    THEN IF ~rep.ok THEN "fail"
         ELSE IF docsTextLength >= MeaningfulLength THEN "pass" ELSE "warn"
    ELSE "fail"

------------------------------------------------------------------------(* errors.find(Boolean): the first fetch error of the samples, if any *)
firstErrorOf(rep) ==
    IF \E i \in DOMAIN rep.errors : rep.errors[i] # "none"
    THEN rep.errors[CHOOSE i \in DOMAIN rep.errors :
                       /\ rep.errors[i] # "none"
                       /\ \A j \in DOMAIN rep.errors : rep.errors[j] # "none" => i <= j]
    ELSE Undef

(* evaluatePublic, lines 1017-1025: the summary of D2 *)
d2SummaryOf(rep) ==
    IF rep.url # Undef
    THEN IF firstErrorOf(rep) # Undef THEN "Entrypoint fetch failed: fetch failed."
         ELSE IF rep.ok
              THEN IF rep.stable THEN "Entrypoint reachable with stable response."
                   ELSE "Entrypoint reachable but unstable across requests."
              ELSE "Entrypoint responded with a non-success status."
    ELSE "Entrypoint unreachable or missing."

(* evaluatePublic, lines 1080-1086: the summary of L1 *)
l1SummaryOf(rep, l1Status) ==
    IF rep.url # Undef
    THEN IF firstErrorOf(rep) # Undef THEN "Docs fetch failed: fetch failed."
         ELSE IF l1Status = "pass" THEN "Docs entrypoint contains meaningful text."
              ELSE "Docs entrypoint found but content appears thin."
    ELSE "No docs entrypoint discovered."

-----
(* evaluatePublic: discover *)


DISCOVERY_ENDPOINTS == <<"/.well-known/openapi.yaml", "/openapi.yaml", "/swagger.json">>

DOCS_ENDPOINTS == <<"/docs", "/documentation", "/developers">>

(* How a fetchOnce call ends: it throws ("error"), or returns a response     *)
(* that is not a success for the probe ("miss"), or one that is ("hit"), or  *)
(* one that is after a followed redirect ("moved")                           *)
FetchKinds == {"error", "miss", "hit", "moved"}

IrregularKinds == {"error", "moved"}

(* Where the origin redirects to *)
RedirectTarget == "/landing"

(* Where the service-desc link of the root page points, resolved *)
ServiceDescTarget == "/api/service-desc"

(* Where the docs field of the manifest points, resolved *)
ManifestDocsTarget == "/docs.md"

NoFetchResult == [url |-> Undef, status |-> 0, good |-> FALSE, sha256 |-> Undef]

(* The FetchResult of a fetchOnce call that returns: the url is the URL of   *)
(* the last safeFetch call of the redirect chain; good: the content type is  *)
(* of the expected family and the body parses and is complete                *)
fetchOnce(kind, requested) ==
    [url |-> IF kind = "moved" THEN RedirectTarget ELSE requested,
     status |-> IF kind = "miss" THEN 404 ELSE 200,
     good |-> kind # "miss",
     sha256 |-> "A"]

isSuccessStatus(r) == r.status >= 200 /\ r.status < 300

isSuccessJson(r) == isSuccessStatus(r) /\ r.good

(* parseJsonBody(result) is not null *)
parseJsonBody(r) == r.good

(* The EvidenceRecord pushed: its url, method and error *)
recordEvidence(r, httpMethod, error) ==
    [url |-> r.url, method |-> httpMethod, error |-> error]

EvalStart ==
    /\ epc = "airRoot"
    /\ state = [airRoot |-> NoFetchResult, airWellKnown |-> NoFetchResult,
                aiPlugin |-> NoFetchResult, openApiRoot |-> NoFetchResult,
                openApiWellKnown |-> NoFetchResult,
                airRootUrl |-> Undef, airWellKnownUrl |-> Undef, airUrl |-> Undef,
                openApiRootUrl |-> Undef, openApiWellKnownUrl |-> Undef,
                openApiUrl |-> Undef, aiPluginUrl |-> Undef,
                serviceDescUrl |-> Undef, docsUrl |-> Undef, entrypoints |-> <<>>]
    /\ loopAt = 1
    /\ evidence = <<>>
    /\ entrypointRepeat = NoRepeat
    /\ docsRepeat = NoRepeat
    /\ docsText = 0
    /\ mcpGetOk = FALSE
    /\ mcpInitOk = FALSE
    /\ evaluated = [status |-> "pending"]
    /\ attempts = 0
    /\ failedUrls = {}
    /\ irregular = 0

(* evaluatePublic while other operations are studied on their own *)
EvalParked == EvalStart

(* One fetchOnce call of the given kind is made *)
Fetching(kind, requested) ==
    /\ kind \in IrregularKinds => irregular < MaxIrregular
    /\ attempts' = attempts + 1
    /\ irregular' = IF kind \in IrregularKinds THEN irregular + 1 ELSE irregular
    /\ failedUrls' = IF kind = "error" THEN failedUrls \cup {requested} ELSE failedUrls

(* The catch of a probe: a note is pushed, no evidence *)
ProbeFailed == UNCHANGED <<state, evidence>>

Recorded(r, httpMethod) == evidence' = Append(evidence, recordEvidence(r, httpMethod, "none"))

(* discover, lines 604-618 *)
ProbeAirRoot ==
    /\ epc = "airRoot"
    /\ \E kind \in FetchKinds :
          LET airRootUrl == "/air.json"
              r == fetchOnce(kind, airRootUrl)
          IN /\ Fetching(kind, airRootUrl)
             /\ IF kind = "error" THEN ProbeFailed
                ELSE /\ Recorded(r, "GET")
                     /\ state' = IF isSuccessJson(r)
                                 THEN [state EXCEPT !.airRoot = r,
                                                    !.airRootUrl = airRootUrl,
                                                    !.entrypoints = Append(@, airRootUrl),
                                                    !.airUrl = IF @ = Undef THEN airRootUrl ELSE @]
                                 ELSE [state EXCEPT !.airRoot = r]
    /\ epc' = "airWellKnown"
    /\ UNCHANGED <<loopAt, entrypointRepeat, docsRepeat, docsText, mcpGetOk, mcpInitOk,
                   evaluated>>

(* discover, lines 634-643: the docs field of the manifest *)
WithManifestDocs(st) ==
    IF parseJsonBody(st.airRoot) \/ parseJsonBody(st.airWellKnown)
    THEN [st EXCEPT !.docsUrl = ManifestDocsTarget]
    ELSE st

(* discover, lines 620-643 *)
ProbeAirWellKnown ==
    /\ epc = "airWellKnown"
    /\ \E kind \in FetchKinds :
          LET airWellKnownUrl == "/.well-known/air.json"
              r == fetchOnce(kind, airWellKnownUrl)
          IN /\ Fetching(kind, airWellKnownUrl)
             /\ IF kind = "error"
                THEN /\ evidence' = evidence
                     /\ state' = WithManifestDocs(state)
                ELSE /\ Recorded(r, "GET")
                     /\ state' = WithManifestDocs(
                            IF isSuccessJson(r)
                            THEN [state EXCEPT !.airWellKnown = r,
                                               !.airWellKnownUrl = airWellKnownUrl,
                                               !.entrypoints = Append(@, airWellKnownUrl),
                                               !.airUrl = airWellKnownUrl]
                            ELSE [state EXCEPT !.airWellKnown = r])
    /\ epc' = "aiPlugin"
    /\ UNCHANGED <<loopAt, entrypointRepeat, docsRepeat, docsText, mcpGetOk, mcpInitOk,
                   evaluated>>

(* discover, lines 645-655 *)
ProbeAiPlugin ==
    /\ epc = "aiPlugin"
    /\ \E kind \in FetchKinds :
          LET aiPluginUrl == "/.well-known/ai-plugin.json"
              r == fetchOnce(kind, aiPluginUrl)
          IN /\ Fetching(kind, aiPluginUrl)
             /\ IF kind = "error" THEN ProbeFailed
                ELSE /\ Recorded(r, "GET")
                     /\ state' = IF isSuccessJson(r)
                                 THEN [state EXCEPT !.aiPlugin = r, !.aiPluginUrl = aiPluginUrl]
                                 ELSE [state EXCEPT !.aiPlugin = r]
    /\ epc' = "root"
    /\ UNCHANGED <<loopAt, entrypointRepeat, docsRepeat, docsText, mcpGetOk, mcpInitOk,
                   evaluated>>

(* discover, lines 657-670: the root page; good: it names a service-desc     *)
(* link in its Link header or its HTML                                       *)
ProbeRoot ==
    /\ epc = "root"
    /\ \E kind \in FetchKinds :
          LET r == fetchOnce(kind, "/")
          IN /\ Fetching(kind, "/")
             /\ IF kind = "error" THEN ProbeFailed
                ELSE /\ Recorded(r, "GET")
                     /\ state' = IF r.good
                                 THEN [state EXCEPT !.serviceDescUrl = ServiceDescTarget,
                                                    !.entrypoints = Append(@, ServiceDescTarget)]
                                 ELSE state
    /\ epc' = "openApiRoot"
    /\ UNCHANGED <<loopAt, entrypointRepeat, docsRepeat, docsText, mcpGetOk, mcpInitOk,
                   evaluated>>

(* discover, lines 672-686 *)
ProbeOpenApiRoot ==
    /\ epc = "openApiRoot"
    /\ \E kind \in FetchKinds :
          LET openApiRootUrl == "/openapi.json"
              r == fetchOnce(kind, openApiRootUrl)
          IN /\ Fetching(kind, openApiRootUrl)
             /\ IF kind = "error" THEN ProbeFailed
                ELSE /\ Recorded(r, "GET")
                     /\ state' = IF isSuccessJson(r)
                                 THEN [state EXCEPT !.openApiRoot = r,
                                                    !.openApiRootUrl = openApiRootUrl,
                                                    !.entrypoints = Append(@, openApiRootUrl),
                                                    !.openApiUrl = IF @ = Undef THEN openApiRootUrl ELSE @]
                                 ELSE [state EXCEPT !.openApiRoot = r]
    /\ epc' = "openApiWellKnown"
    /\ UNCHANGED <<loopAt, entrypointRepeat, docsRepeat, docsText, mcpGetOk, mcpInitOk,
                   evaluated>>

(* discover, lines 688-702 *)
ProbeOpenApiWellKnown ==
    /\ epc = "openApiWellKnown"
    /\ \E kind \in FetchKinds :
          LET openApiWellKnownUrl == "/.well-known/openapi.json"
              r == fetchOnce(kind, openApiWellKnownUrl)
          IN /\ Fetching(kind, openApiWellKnownUrl)
             /\ IF kind = "error" THEN ProbeFailed
                ELSE /\ Recorded(r, "GET")
                     /\ state' = IF isSuccessJson(r)
                                 THEN [state EXCEPT !.openApiWellKnown = r,
                                                    !.openApiWellKnownUrl = openApiWellKnownUrl,
                                                    !.entrypoints = Append(@, openApiWellKnownUrl),
                                                    !.openApiUrl = IF @ = Undef THEN openApiWellKnownUrl ELSE @]
                                 ELSE [state EXCEPT !.openApiWellKnown = r]
    /\ epc' = "discoveryEndpoints"
    /\ loopAt' = 1
    /\ UNCHANGED <<entrypointRepeat, docsRepeat, docsText, mcpGetOk, mcpInitOk, evaluated>>

(* discover, lines 704-722: one candidate of DISCOVERY_ENDPOINTS *)
ProbeDiscoveryEndpoint ==
    /\ epc = "discoveryEndpoints"
    /\ loopAt <= Len(DISCOVERY_ENDPOINTS)
    /\ state.openApiUrl = Undef
    /\ \E kind \in FetchKinds :
          LET candidate == DISCOVERY_ENDPOINTS[loopAt]
              r == fetchOnce(kind, candidate)
          IN /\ Fetching(kind, candidate)
             /\ IF kind = "error" THEN ProbeFailed
                ELSE /\ Recorded(r, "GET")
                     /\ state' = IF isSuccessJson(r)
                                 THEN [state EXCEPT !.openApiUrl = candidate,
                                                    !.entrypoints = Append(@, candidate)]
                                 ELSE state
    /\ loopAt' = loopAt + 1
    /\ UNCHANGED <<epc, entrypointRepeat, docsRepeat, docsText, mcpGetOk, mcpInitOk,
                   evaluated>>

(* discover, lines 704-707: the loop ends *)
LeaveDiscoveryEndpoints ==
    /\ epc = "discoveryEndpoints"
    /\ loopAt > Len(DISCOVERY_ENDPOINTS) \/ state.openApiUrl # Undef
    /\ epc' = "llms"
    /\ UNCHANGED <<state, loopAt, evidence, entrypointRepeat, docsRepeat, docsText,
                   mcpGetOk, mcpInitOk, evaluated, attempts, failedUrls, irregular>>

(* discover, lines 724-733: state.llmsUrl is set and never read *)
ProbeLlms ==
    /\ epc = "llms"
    /\ \E kind \in FetchKinds :
          /\ Fetching(kind, "/llms.txt")
          /\ IF kind = "error" THEN ProbeFailed
             ELSE Recorded(fetchOnce(kind, "/llms.txt"), "GET") /\ UNCHANGED state
    /\ epc' = "robots"
    /\ UNCHANGED <<loopAt, entrypointRepeat, docsRepeat, docsText, mcpGetOk, mcpInitOk,
                   evaluated>>

(* discover, lines 735-744: state.robotsUrl is set and never read *)
ProbeRobots ==
    /\ epc = "robots"
    /\ \E kind \in FetchKinds :
          /\ Fetching(kind, "/robots.txt")
          /\ IF kind = "error" THEN ProbeFailed
             ELSE Recorded(fetchOnce(kind, "/robots.txt"), "GET") /\ UNCHANGED state
    /\ epc' = "docs"
    /\ loopAt' = 1
    /\ UNCHANGED <<entrypointRepeat, docsRepeat, docsText, mcpGetOk, mcpInitOk, evaluated>>

(* discover, lines 746-760: one candidate of DOCS_ENDPOINTS *)
ProbeDocs ==
    /\ epc = "docs"
    /\ loopAt <= Len(DOCS_ENDPOINTS)
    /\ state.docsUrl = Undef
    /\ \E kind \in FetchKinds :
          LET candidate == DOCS_ENDPOINTS[loopAt]
              r == fetchOnce(kind, candidate)
          IN /\ Fetching(kind, candidate)
             /\ IF kind = "error" THEN ProbeFailed
                ELSE /\ Recorded(r, "GET")
                     /\ state' = IF isSuccessStatus(r)
                                 THEN [state EXCEPT !.docsUrl = candidate]
                                 ELSE state
    /\ loopAt' = loopAt + 1
    /\ UNCHANGED <<epc, entrypointRepeat, docsRepeat, docsText, mcpGetOk, mcpInitOk,
                   evaluated>>

(* evaluatePublic, lines 835-842 *)
primaryEntrypointOf(st) ==
    IF st.airRootUrl # Undef THEN st.airRootUrl
    ELSE IF st.airWellKnownUrl # Undef THEN st.airWellKnownUrl
    ELSE IF st.serviceDescUrl # Undef THEN st.serviceDescUrl
    ELSE IF st.openApiRootUrl # Undef THEN st.openApiRootUrl
    ELSE IF st.openApiWellKnownUrl # Undef THEN st.openApiWellKnownUrl
    ELSE st.openApiUrl

(* discover, lines 746-763: discover returns *)
LeaveDocs ==
    /\ epc = "docs"
    /\ loopAt > Len(DOCS_ENDPOINTS) \/ state.docsUrl # Undef
    /\ epc' = "repeatEntrypoint"
    /\ UNCHANGED <<state, loopAt, evidence, entrypointRepeat, docsRepeat, docsText,
                   mcpGetOk, mcpInitOk, evaluated, attempts, failedUrls, irregular>>

(* How the three fetchOnce calls of a fetchRepeated end in an evaluation:   *)
(* all alike ("hit"), the last with another body ("unstable"), or the       *)
(* second thrown ("error")                                                   *)
RepeatKinds == {"hit", "unstable", "error"}

RepeatOutcomes(kind, requested, contentType) ==
    LET same == ReturnedCall(requested, 200, "A", contentType)
    IN IF kind = "hit" THEN <<same, same, same>>
       ELSE IF kind = "unstable"
            THEN <<same, same, ReturnedCall(requested, 200, "B", contentType)>>
       ELSE <<same, ThrownCall, same>>

(* evaluatePublic, lines 847-849 and 856-858 *)
RECURSIVE recordRepeat(_, _, _)
recordRepeat(records, rep, n) ==
    IF n = 0 THEN records
    ELSE Append(recordRepeat(records, rep, n - 1),
                recordEvidence(rep.results[n], "GET", rep.errors[n]))

(* A fetchRepeated call of the given kind is made *)
Repeating(kind, requested) ==
    /\ kind \in IrregularKinds => irregular < MaxIrregular
    /\ attempts' = attempts + 3
    /\ irregular' = IF kind \in IrregularKinds THEN irregular + 1 ELSE irregular
    /\ failedUrls' = IF kind = "error" THEN failedUrls \cup {requested} ELSE failedUrls

(* evaluatePublic, lines 844-850 *)
RepeatEntrypoint ==
    /\ epc = "repeatEntrypoint"
    /\ LET primaryEntrypoint == primaryEntrypointOf(state)
       IN IF primaryEntrypoint = Undef
          THEN UNCHANGED <<entrypointRepeat, evidence, attempts, failedUrls, irregular>>
          ELSE \E kind \in RepeatKinds :
                  LET rep == fetchRepeated(primaryEntrypoint,
                                 RepeatOutcomes(kind, primaryEntrypoint, "application/json"))
                  IN /\ Repeating(kind, primaryEntrypoint)
                     /\ entrypointRepeat' = rep
                     /\ evidence' = recordRepeat(evidence, rep, Len(rep.results))
    /\ epc' = "repeatDocs"
    /\ UNCHANGED <<state, loopAt, docsRepeat, docsText, mcpGetOk, mcpInitOk, evaluated>>

(* evaluatePublic, lines 852-862 *)
RepeatDocs ==
    /\ epc = "repeatDocs"
    /\ LET docsUrl == state.docsUrl
       IN IF docsUrl = Undef
          THEN UNCHANGED <<docsRepeat, docsText, evidence, attempts, failedUrls, irregular>>
          ELSE \E kind \in RepeatKinds, bodyLength \in {MeaningfulLength - 1, MeaningfulLength} :
                  LET rep == fetchRepeated(docsUrl, RepeatOutcomes(kind, docsUrl, "text/html"))
                  IN /\ Repeating(kind, docsUrl)
                     /\ ~rep.ok => bodyLength = MeaningfulLength
                     /\ docsRepeat' = rep
                     /\ docsText' = docsTextOf(rep, bodyLength)
                     /\ evidence' = recordRepeat(evidence, rep, Len(rep.results))
    /\ epc' = "mcpGet"
    /\ UNCHANGED <<state, loopAt, entrypointRepeat, mcpGetOk, mcpInitOk, evaluated>>

(* evaluatePublic, lines 952-960 and 977-978; a response that is a hit has   *)
(* explainer text                                                            *)
McpGet ==
    /\ epc = "mcpGet"
    /\ \E kind \in FetchKinds :
          LET mcpGetResult == fetchOnce(kind, "/mcp")
          IN /\ Fetching(kind, "/mcp")
             /\ IF kind = "error"
                THEN UNCHANGED <<evidence, mcpGetOk>>
                ELSE /\ Recorded(mcpGetResult, "GET")
                     /\ mcpGetOk' = (isSuccessStatus(mcpGetResult) /\ mcpGetResult.good)
    /\ epc' = "mcpInit"
    /\ UNCHANGED <<state, loopAt, entrypointRepeat, docsRepeat, docsText, mcpInitOk,
                   evaluated>>

(* evaluatePublic, lines 961-986; a response that is a hit is a JSON-RPC     *)
(* result with a protocol version                                            *)
McpInit ==
    /\ epc = "mcpInit"
    /\ \E kind \in FetchKinds :
          LET mcpInitResult == fetchOnce(kind, "/mcp")
          IN /\ Fetching(kind, "/mcp")
             /\ IF kind = "error"
                THEN UNCHANGED <<evidence, mcpInitOk>>
                ELSE /\ Recorded(mcpInitResult, "POST")
                     /\ mcpInitOk' = (isSuccessStatus(mcpInitResult) /\ mcpInitResult.good)
    /\ epc' = "checks"
    /\ UNCHANGED <<state, loopAt, entrypointRepeat, docsRepeat, docsText, mcpGetOk,
                   evaluated>>

(* [primaryEntrypoint, docsUrl].filter(Boolean) *)
Defined(urls) == SelectSeq(urls, LAMBDA u : u # Undef)

(* evaluatePublic, lines 1119-1124 *)
r3StableOf(entrypointRep, docsRep, primaryEntrypoint, docsUrl) ==
    LET entrypointConsistent ==
            IF entrypointRep.url # Undef THEN entrypointRep.ok /\ entrypointRep.stable
            ELSE TRUE
        docsConsistent ==
            IF docsRep.url # Undef THEN docsRep.ok /\ docsRep.stable ELSE TRUE
    IN /\ entrypointConsistent
       /\ docsConsistent
       /\ (primaryEntrypoint # Undef \/ docsUrl # Undef)

CheckResult(id, status, urls) ==
    [id |-> id, status |-> status, severity |-> "high", evidence |-> urls]

PassIf(condition) == IF condition THEN "pass" ELSE "fail"

(* evaluatePublic, lines 864-950 and 988-1134: the eight checks *)
checksOf(st, entrypointRep, docsRep, docsTextLength, getOk, initOk) ==
    LET primaryEntrypoint == primaryEntrypointOf(st)
        airRootOk == isSuccessJson(st.airRoot)
        airWellKnownOk == isSuccessJson(st.airWellKnown)
        airManifestComplete == parseJsonBody(st.airRoot) \/ parseJsonBody(st.airWellKnown)
        aiPluginOk == isSuccessJson(st.aiPlugin)
        aiPluginFieldsOk == parseJsonBody(st.aiPlugin)
        openApiRootOk == isSuccessJson(st.openApiRoot)
        openApiWellKnownOk == isSuccessJson(st.openApiWellKnown)
        openApiDataOk == parseJsonBody(st.openApiRoot)
    IN <<CheckResult("D1", PassIf(primaryEntrypoint # Undef), st.entrypoints),
         CheckResult("D2", d2StatusOf(entrypointRep), Defined(<<primaryEntrypoint>>)),
         CheckResult("C2", PassIf(openApiRootOk /\ openApiWellKnownOk /\ openApiDataOk),
                     <<"/openapi.json", "/.well-known/openapi.json">>),
         CheckResult("C3", PassIf(getOk /\ initOk), <<"/mcp">>),
         CheckResult("L1", l1StatusOf(docsRep, docsTextLength), Defined(<<st.docsUrl>>)),
         CheckResult("T1", PassIf(airRootOk /\ airWellKnownOk /\ airManifestComplete),
                     <<"/air.json", "/.well-known/air.json">>),
         CheckResult("T2", PassIf(aiPluginOk /\ aiPluginFieldsOk),
                     <<"/.well-known/ai-plugin.json">>),
         CheckResult("R3",
                     PassIf(r3StableOf(entrypointRep, docsRep, primaryEntrypoint, st.docsUrl)),
                     Defined(<<primaryEntrypoint, st.docsUrl>>))>>

(* evaluatePublic, lines 988-1185: the checks, the scores and the return *)
BuildChecks ==
    /\ epc = "checks"
    /\ \E profile \in Profiles :
          LET checks == checksOf(state, entrypointRepeat, docsRepeat, docsText, mcpGetOk,
                                 mcpInitOk)
              scores == aggregateScores(checks, profile)
          IN evaluated' = [status |-> "complete", profile |-> profile,
                           score |-> scores.score, grade |-> scores.grade,
                           pillarScores |-> scores.pillarScores, checks |-> checks]
    /\ epc' = "returned"
    /\ UNCHANGED <<state, loopAt, evidence, entrypointRepeat, docsRepeat, docsText,
                   mcpGetOk, mcpInitOk, attempts, failedUrls, irregular>>

(* fetchRepeated, aggregateScores and computeDiff while other operations     *)
(* are studied                                                               *)
RepeatParked ==
    /\ rpc = "start"
    /\ known = FALSE
    /\ calls = <<>>
    /\ textLength = 0
    /\ repeated = NoRepeat
    /\ judged = [d2 |-> "none", l1 |-> "none", d2Summary |-> "none", l1Summary |-> "none"]

ScoreParked ==
    /\ spc = "start"
    /\ scoredChecks = <<>>
    /\ scored = [profile |-> "none"]
    /\ rescored = [profile |-> "none"]

NullInput == [null |-> TRUE, checks |-> <<>>]

DiffParked ==
    /\ dpc = "start"
    /\ previousRun = NullInput
    /\ currentRun = NullInput
    /\ diff = [status |-> "pending"]

SamplingParked ==
    /\ smPhase = "done"
    /\ smLoc = "loop"
    /\ smStarted = 0
    /\ inFlight = {}
    /\ sampled = <<>>
    /\ hasEntrypoint = FALSE
    /\ hasDocs = FALSE

RateParked ==
    /\ rlpc = <<>>
    /\ rlIp = <<>>
    /\ rlRead = <<>>
    /\ rateLimits = <<>>
    /\ admittedOf = <<>>

EvalInit == EvalStart /\ FetchParked /\ RunsParked /\ RepeatParked /\ ScoreParked /\ DiffParked
        /\ SamplingParked /\ RateParked

EvalNext ==
    \/ ProbeAirRoot /\ UNCHANGED nonEvalVars
    \/ ProbeAirWellKnown /\ UNCHANGED nonEvalVars
    \/ ProbeAiPlugin /\ UNCHANGED nonEvalVars
    \/ ProbeRoot /\ UNCHANGED nonEvalVars
    \/ ProbeOpenApiRoot /\ UNCHANGED nonEvalVars
    \/ ProbeOpenApiWellKnown /\ UNCHANGED nonEvalVars
    \/ ProbeDiscoveryEndpoint /\ UNCHANGED nonEvalVars
    \/ LeaveDiscoveryEndpoints /\ UNCHANGED nonEvalVars
    \/ ProbeLlms /\ UNCHANGED nonEvalVars
    \/ ProbeRobots /\ UNCHANGED nonEvalVars
    \/ ProbeDocs /\ UNCHANGED nonEvalVars
    \/ LeaveDocs /\ UNCHANGED nonEvalVars
    \/ RepeatEntrypoint /\ UNCHANGED nonEvalVars
    \/ RepeatDocs /\ UNCHANGED nonEvalVars
    \/ McpGet /\ UNCHANGED nonEvalVars
    \/ McpInit /\ UNCHANGED nonEvalVars
    \/ BuildChecks /\ UNCHANGED nonEvalVars

SpecEval == EvalInit /\ [][EvalNext]_vars

-----------------------------------------------------------------------------
(* fetchRepeated on its own, and the statuses of D2 and L1 it leads to *)

HashNames == <<"A", "B", "C", "D">>

Hashes == {HashNames[i] : i \in 1..MaxHashes}

ContentTypes == {"application/json", "application/yaml", "text/html", "image/png"}

(* fetchRepeated(url, 3) *)
RepeatTimes == 3

ProbedUrl == "/probed"

(* What one fetchOnce call of ProbedUrl may do *)
CallOutcomes ==
    {ThrownCall} \cup
    {ReturnedCall(ProbedUrl, status, sha256, contentType) :
        status \in {200, 404}, sha256 \in Hashes, contentType \in ContentTypes}

RepeatStart ==
    /\ rpc = "start"
    /\ known \in BOOLEAN
    /\ calls \in [1..RepeatTimes -> CallOutcomes]
    /\ textLength \in TextLengths
    /\ repeated = NoRepeat
    /\ judged = [d2 |-> "none", l1 |-> "none", d2Summary |-> "none", l1Summary |-> "none"]

(* evaluatePublic, lines 844-862: the URL is known and fetched three times,  *)
(* or it is not and the RepeatFetchResult stays undefined                    *)
Repeat ==
    /\ rpc = "start"
    /\ repeated' = IF known THEN fetchRepeated(ProbedUrl, calls) ELSE NoRepeat
    /\ rpc' = "repeated"
    /\ UNCHANGED <<known, calls, textLength, judged>>

(* evaluatePublic, lines 1001-1011 and 1065-1074, the URL being the primary  *)
(* entrypoint for D2 and the docs entrypoint for L1                          *)
Judge ==
    /\ rpc = "repeated"
    /\ LET l1Status == l1StatusOf(repeated, docsTextOf(repeated, textLength))
       IN judged' = [d2 |-> d2StatusOf(repeated),
                     l1 |-> l1Status,
                     d2Summary |-> d2SummaryOf(repeated),
                     l1Summary |-> l1SummaryOf(repeated, l1Status)]
    /\ rpc' = "judged"
    /\ UNCHANGED <<known, calls, textLength, repeated>>

RepeatInit == RepeatStart /\ FetchParked /\ RunsParked /\ EvalParked /\ ScoreParked /\ DiffParked
        /\ SamplingParked /\ RateParked

RepeatNext ==
    \/ Repeat /\ UNCHANGED nonRepeatVars
    \/ Judge /\ UNCHANGED nonRepeatVars

SpecRepeat == RepeatInit /\ [][RepeatNext]_vars

-----------------------------------------------------------------------------
(* aggregateScores on its own *)

CheckStatuses == {"pass", "warn", "fail"}

(* The check lists handed to aggregateScores: the catalogue's checks in its  *)
(* order, each with a status, at most MaxAbsent of them left out             *)
RECURSIVE checkList(_, _)
checkList(statusOf, n) ==
    IF n = 0 THEN <<>>
    ELSE IF statusOf[CHECKS[n].id] = "absent" THEN checkList(statusOf, n - 1)
    ELSE Append(checkList(statusOf, n - 1),
                [id |-> CHECKS[n].id, status |-> statusOf[CHECKS[n].id]])

ScoreStart ==
    /\ spc = "start"
    /\ \E statusOf \in [CheckIds -> CheckStatuses \cup {"absent"}] :
          /\ Cardinality({id \in CheckIds : statusOf[id] = "absent"}) <= MaxAbsent
          /\ scoredChecks = checkList(statusOf, Len(CHECKS))
    /\ scored = [profile |-> "none"]
    /\ rescored = [profile |-> "none"]

(* What a call of aggregateScores returns, with its profile argument *)
Scores(checks, profile) ==
    LET scores == aggregateScores(checks, profile)
    IN [profile |-> profile, score |-> scores.score, grade |-> scores.grade,
        pillarScores |-> scores.pillarScores]

(* aggregateScores(checks, profile) is called, and called again with the     *)
(* same arguments                                                            *)
Aggregate ==
    /\ spc = "start"
    /\ \E profile \in Profiles :
          /\ scored' = Scores(scoredChecks, profile)
          /\ rescored' = Scores(scoredChecks, profile)
    /\ spc' = "scored"
    /\ UNCHANGED scoredChecks

ScoreInit == ScoreStart /\ FetchParked /\ RunsParked /\ EvalParked /\ RepeatParked /\ DiffParked
        /\ SamplingParked /\ RateParked

ScoreNext ==
    \/ Aggregate /\ UNCHANGED nonScoreVars

SpecScore == ScoreInit /\ [][ScoreNext]_vars

-----------------------------------------------------------------------------
(* aggregateScores on a list and on the same list with one check improved *)

(* The lists: every catalogue check with a status *)
MonoStart ==
    /\ spc = "start"
    /\ \E statusOf \in [CheckIds -> CheckStatuses] :
          scoredChecks = checkList(statusOf, Len(CHECKS))
    /\ scored = [profile |-> "none"]
    /\ rescored = [profile |-> "none"]

(* The statuses that are better than a status *)
BetterThan(status) ==
    IF status = "fail" THEN {"warn", "pass"}
    ELSE IF status = "warn" THEN {"pass"}
    ELSE {}

(* aggregateScores(checks, profile) is called on the list, then on the list  *)
(* in which one check has a better status                                    *)
Improve ==
    /\ spc = "start"
    /\ \E profile \in Profiles, i \in DOMAIN scoredChecks :
          \E better \in BetterThan(scoredChecks[i].status) :
              LET improved == [scoredChecks EXCEPT ![i].status = better]
              IN /\ scored' = Scores(scoredChecks, profile)
                 /\ rescored' = Scores(improved, profile)
                 /\ scoredChecks' = improved
    /\ spc' = "improved"

MonoInit == MonoStart /\ FetchParked /\ RunsParked /\ EvalParked /\ RepeatParked /\ DiffParked
        /\ SamplingParked /\ RateParked

MonoNext ==
    \/ Improve /\ UNCHANGED nonScoreVars

SpecMono == MonoInit /\ [][MonoNext]_vars

-----------------------------------------------------------------------------
(* computeDiff on its own *)

DiffCheckIds == {"D1", "L1"}

RECURSIVE SeqsOfAtMost(_, _)
SeqsOfAtMost(S, n) ==
    IF n = 0 THEN {<<>>}
    ELSE LET shorter == SeqsOfAtMost(S, n - 1)
         IN shorter \cup {Append(q, x) : q \in shorter, x \in S}

(* The checks of a stored run, here of another severity, and those          *)
(* evaluatePublic returns, which are all of severity high                    *)
PreviousChecks ==
    [id : DiffCheckIds, status : CheckStatuses, severity : {"medium"}]

CurrentChecks ==
    [id : DiffCheckIds, status : CheckStatuses, severity : {"high"}]

DiffStart ==
    /\ dpc = "start"
    /\ \/ previousRun = NullInput
       \/ \E checks \in SeqsOfAtMost(PreviousChecks, MaxDiffChecks) :
             previousRun = [null |-> FALSE, checks |-> checks]
    /\ \E checks \in SeqsOfAtMost(CurrentChecks, MaxDiffChecks) :
          currentRun = [null |-> FALSE, checks |-> checks]
    /\ diff = [status |-> "pending"]

(* previousById.get(id): the last check of that id, or 0 *)
previousById(checks, id) ==
    IF \E i \in DOMAIN checks : checks[i].id = id
    THEN CHOOSE i \in DOMAIN checks :
            /\ checks[i].id = id
            /\ \A j \in DOMAIN checks : checks[j].id = id => j <= i
    ELSE 0

(* computeDiff, lines 47-52, when escalation is not an issue *)
IsNewIssueNoEscalation(from, to) ==
    from \in {"null", "pass"} /\ to \in {"warn", "fail"}

(* computeDiff, lines 47-49: regression || escalated *)
IsNewIssue(from, to) ==
    \/ from \in {"null", "pass"} /\ to \in {"warn", "fail"}
    \/ from = "warn" /\ to = "fail"

(* computeDiff, lines 50-52: improved || softened *)
IsFixedIssue(from, to) ==
    \/ from \in {"warn", "fail"} /\ to = "pass"
    \/ from = "fail" /\ to = "warn"

(* computeDiff, lines 41-75: the three lists after the first n checks of     *)
(* current.checks                                                            *)
RECURSIVE diffLists(_, _, _)
diffLists(previousChecks, currentChecks, n) ==
    IF n = 0 THEN [newIssues |-> <<>>, fixedIssues |-> <<>>, changed |-> <<>>]
    ELSE LET lists == diffLists(previousChecks, currentChecks, n - 1)
             check == currentChecks[n]
             before == previousById(previousChecks, check.id)
             from == IF before = 0 THEN "null" ELSE previousChecks[before].status
             to == check.status
         IN IF from = to THEN lists
            ELSE IF IsNewIssue(from, to)
                 THEN [lists EXCEPT !.newIssues =
                          Append(@, [checkId |-> check.id, from |-> from, to |-> to,
                                     severity |-> check.severity])]
            ELSE IF IsFixedIssue(from, to)
                 THEN [lists EXCEPT !.fixedIssues =
                          Append(@, [checkId |-> check.id, from |-> from, to |-> to,
                                     severity |-> IF before = 0 THEN check.severity
                                                  ELSE previousChecks[before].severity])]
            ELSE [lists EXCEPT !.changed =
                     Append(@, [checkId |-> check.id, from |-> from, to |-> to])]

(* countStatuses *)
countStatuses(checks) ==
    [status \in CheckStatuses |-> Cardinality({i \in DOMAIN checks : checks[i].status = status})]

(* computeDiff: the lists and the counts of the DiffSummary, or null *)
computeDiff(prev, cur) ==
    IF prev.null THEN [status |-> "null"]
    ELSE LET lists == diffLists(prev.checks, cur.checks, Len(cur.checks))
         IN [status |-> "computed", newIssues |-> lists.newIssues,
             fixedIssues |-> lists.fixedIssues, changed |-> lists.changed,
             counts |-> countStatuses(cur.checks)]

ComputeDiff ==
    /\ dpc = "start"
    /\ diff' = computeDiff(previousRun, currentRun)
    /\ dpc' = "done"
    /\ UNCHANGED <<previousRun, currentRun>>

DiffInit == DiffStart /\ FetchParked /\ RunsParked /\ EvalParked /\ RepeatParked /\ ScoreParked
        /\ SamplingParked /\ RateParked

DiffNext ==
    \/ ComputeDiff /\ UNCHANGED nonDiffVars

SpecDiff == DiffInit /\ [][DiffNext]_vars




RunsInit ==
    RunsStart /\ FetchParked /\ EvalParked /\ RepeatParked /\ ScoreParked /\ DiffParked
        /\ SamplingParked /\ RateParked

RunsNext ==
    \E h \in Runs :
        \/ Reject(h) /\ UNCHANGED nonRunVars
        \/ Start(h) /\ UNCHANGED nonRunVars
        \/ ReadDomain(h) /\ UNCHANGED nonRunVars
        \/ CreateRun(h) /\ UNCHANGED nonRunVars
        \/ CreateRoot(h) /\ UNCHANGED nonRunVars
        \/ EvaluationResolves(h) /\ UNCHANGED nonRunVars
        \/ EvaluationRejects(h) /\ UNCHANGED nonRunVars
        \/ DeadlineExpires(h) /\ UNCHANGED nonRunVars
        \/ Upload(h) /\ UNCHANGED nonRunVars
        \/ ReadPrevious(h) /\ UNCHANGED nonRunVars
        \/ SetRun(h) /\ UNCHANGED nonRunVars
        \/ SetRoot(h) /\ UNCHANGED nonRunVars
        \/ SetDomain(h) /\ UNCHANGED nonRunVars
        \/ CatchRun(h) /\ UNCHANGED nonRunVars
        \/ CatchRoot(h) /\ UNCHANGED nonRunVars
        \/ AsyncCatchRun(h) /\ UNCHANGED nonRunVars
        \/ AsyncCatchRoot(h) /\ UNCHANGED nonRunVars

RetryNext == \E h \in Runs : RetryFinalize(h) /\ UNCHANGED nonRunVars

SpecRuns == RunsInit /\ [][RunsNext]_vars

SpecRetry == RunsInit /\ [][RunsNext \/ RetryNext]_vars

-----------------------------------------------------------------------------
FetchInit ==
    FetchStart /\ RunsParked /\ EvalParked /\ RepeatParked /\ ScoreParked /\ DiffParked
        /\ SamplingParked /\ RateParked

FetchNext ==
    \/ Validate /\ UNCHANGED nonFetchVars
    \/ RequestFails /\ UNCHANGED nonFetchVars
    \/ Request /\ UNCHANGED nonFetchVars
    \/ HopCheck /\ UNCHANGED nonFetchVars
    \/ ReadChunk /\ UNCHANGED nonFetchVars
    \/ ReadDone /\ UNCHANGED nonFetchVars
    \/ ReadAborted /\ UNCHANGED nonFetchVars

SpecFetch == FetchInit /\ [][FetchNext]_vars

-----------------------------------------------------------------------------
(* Properties of safeFetch *)

HostIsBlockedAlias(u) ==
    LET h == UrlHostname(u) IN h \in BLOCKED_HOSTNAMES \/ EndsWithDotLocal(h)

SchemeAllowed(u) == u.protocol \in {"http:", "https:"}

C2_RequestOnlyAfterVetting ==
    requests' # requests =>
        /\ requests' = Append(requests, [url |-> url, status |-> response'.status])
        /\ vetAt = "call"
        /\ ~resolvesBlocked
        /\ SchemeAllowed(url)
        /\ ~HostIsBlockedAlias(url)

C2_BlockedHopFails ==
    (resolvesBlocked /\ vetAt \in {"hop", "call"}) =>
        /\ outcome = "error"
        /\ Len(requests) = Len(redirectChain) + (IF vetAt = "hop" THEN 1 ELSE 0)

C2_EveryHopVetted == [](C2_BlockedHopFails) /\ [][C2_RequestOnlyAfterVetting]_vars

C2_Witness ==
    /\ Len(redirectChain) = 1
    /\ vetAt = "hop"
    /\ resolvesBlocked
    /\ errorMsg = "Blocked IP address"
    /\ UrlHostname(nextUrl) = <<"a", "example">>
    /\ Len(requests) = 2

(* C3: no HTTP request is delivered to an address in a blocked range.        *)
C3_NoRequestToBlockedAddress == connected # "none" => ~InBlockedRange(connected)

(* C4: a body that ends within the cap is returned whole, with the hash of   *)
(* exactly its bytes; a body that exceeds the cap fails with the             *)
(* body-too-large failure and yields no result.                              *)
C4_BodyCap ==
    /\ fpc = "body" => (Len(streamed) <= maxBytes /\ outcome = "pending")
    /\ (outcome = "result" /\ result.sha256.kind = "digest") =>
          /\ Len(streamed) <= maxBytes
          /\ result.bodyText = Utf8Decode(streamed)
          /\ result.sha256 = Sha256(streamed)
    /\ Len(streamed) > maxBytes =>
          /\ outcome = "error"
          /\ errorMsg = "Response too large"
          /\ result = NoResult
    /\ errorMsg = "Response too large" => Len(streamed) > maxBytes

C4_Witness ==
    /\ outcome = "result"
    /\ Len(chunks) = 2
    /\ Len(streamed) = maxBytes
    /\ result.sha256 = Sha256(streamed)

(* C5: the redirect chain of a result lists, in order, the URLs that         *)
(* answered with a followed redirect and their status; it is never longer    *)
(* than maxRedirects; every hop is requested once; a redirect that arrives   *)
(* when the budget is used up fails with the too-many-redirects failure.     *)
C5_RedirectChain ==
    LET budget == EffectiveMaxRedirects(maxRedirects0) IN
    /\ Len(redirectChain) <= budget
    /\ Len(requests) <= Len(redirectChain) + 1
    /\ \A i \in DOMAIN redirectChain :
          /\ redirectChain[i] = requests[i]
          /\ redirectChain[i].status \in REDIRECT_STATUSES
    /\ outcome = "result" =>
          /\ result.redirectChain = redirectChain
          /\ requests = redirectChain \o <<[url |-> result.url, status |-> result.status]>>
    /\ fpc = "hopcheck" => Len(redirectChain) < budget
    /\ errorMsg = "Too many redirects" =>
          /\ Len(redirectChain) = budget
          /\ Len(requests) = budget + 1
          /\ requests[budget + 1].status \in REDIRECT_STATUSES

C5_Witness ==
    /\ outcome = "result"
    /\ Len(result.redirectChain) = 2
    /\ result.redirectChain[1].url # result.redirectChain[2].url
    /\ result.redirectChain[1].status # result.redirectChain[2].status

(* C6: every failure is one of the seven failure kinds and the caller can    *)
(* tell which one from the error it receives.                                *)
FailureKinds == {"invalid_scheme", "blocked_host", "blocked_ip", "dns_failed",
                 "too_many_redirects", "body_too_large", "transport_error"}

(* The kind of the failure that happened *)
KindOfCause(c) == IF c = "no_location" THEN "transport_error" ELSE c

C6_FailureKindTold ==
    (outcome = "error" /\ cause # "invalid_url") =>
        /\ KindOfCause(cause) \in FailureKinds
        /\ KindOfMessage(errorMsg) = KindOfCause(cause)


(* ------------------------------------------------------------------------ *)
(* The run record and the domain's latestRunId                               *)

Terminal == {"complete", "failed"}

StatusStep(old, new) ==
    \/ new = old
    \/ old = "absent" /\ new = "running"
    \/ old = "running" /\ new \in Terminal

WrittenOnce(doc, docNext) ==
    /\ StatusStep(Field(doc, "status"), Field(docNext, "status"))
    /\ Field(doc, "status") \in Terminal => docNext = doc

(* C7: in each store the run record is created with status "running", its    *)
(* status changes at most once, from "running" to "complete" or "failed",    *)
(* and once it is "complete" or "failed" no later step of the handler        *)
(* changes the record, the error path after a partial finalize included.     *)
C7_RunRecordWrittenOnce ==
    [][\A h \in Runs :
          /\ WrittenOnce(runsOfDomain[h], runsOfDomain'[h])
          /\ WrittenOnce(runsRoot[h], runsRoot'[h])]_vars

(* A detached finalize wrote the run as complete and then failed: the record *)
(* is "failed" and carries the score the finalize stored.                    *)
C7_PartialFinalize ==
    \E h \in Runs :
        /\ detached[h]
        /\ Field(runsOfDomain[h], "status") = "failed"
        /\ Field(runsOfDomain[h], "score") # Absent("score")

(* C8: when a re-invocation of finalize for a run whose first finalize       *)
(* completed runs to its end, the run's stored status, score, check results  *)
(* and diff summary in both stores and the domain's latestRunId are what     *)
(* they were after the first invocation.                                     *)
C8_RetryLeavesRunUnchanged ==
    [][\A h \in Runs :
          (retrying[h] = "yes" /\ retrying'[h] = "done" /\ faults' = faults)
              => Persisted(h, runsOfDomain', runsRoot', latestRunId') = firstFinal[h]]_vars

(* Both runs of a domain were finalized again, the older one last, after the *)
(* newer one (whose diff is against the older) had completed.                *)
C8_Witness ==
    \E g, h \in Runs :
        /\ g # h
        /\ faults = 0
        /\ retrying[g] = "done" /\ retrying[h] = "done"
        /\ previousRunId[h] = g
        /\ Field(runsOfDomain[h], "diffSummary") # Absent("diffSummary")
        /\ latestRunId[domain[g]] = g

(* C9: a run whose evaluation outlives the deadline is answered with status  *)
(* "running", and once its detached continuation has ended the run is        *)
(* "complete" or "failed" in both stores.                                    *)
C9_DeadlineRunLeavesRunning ==
    \A h \in Runs :
        detached[h] =>
            /\ reply[h] = "running"
            /\ pc[h] \in {"done", "crashed"} =>
                  /\ Field(runsOfDomain[h], "status") \in Terminal
                  /\ Field(runsRoot[h], "status") \in Terminal

Quiescent == \A h \in Runs : pc[h] \in {"idle", "rejected", "done", "crashed"}

(* C10: when no handler is in flight, the run a domain's latestRunId names   *)
(* is complete and no complete run of the domain has a later completion time *)
C10_LatestIsLatestCompleted ==
    Quiescent =>
        \A d \in Domains :
            latestRunId[d] # 0 =>
                /\ Field(runsOfDomain[latestRunId[d]], "status") = "complete"
                /\ \A g \in Runs :
                      (domain[g] = d /\ Field(runsOfDomain[g], "status") = "complete")
                          => Field(runsOfDomain[g], "completedAt")
                                 <= Field(runsOfDomain[latestRunId[d]], "completedAt")

-----------------------------------------------------------------------------
(* Properties of evaluatePublic *)

EvidenceUrls == {evidence[i].url : i \in DOMAIN evidence}

Complete == evaluated.status = "complete"

(* C11: in a returned result, every URL in the evidence of a check has an    *)
(* EvidenceRecord with the same URL in the evidence list                     *)
C11_EvidenceUrlsRecorded ==
    Complete =>
        \A i \in DOMAIN evaluated.checks :
            \A j \in DOMAIN evaluated.checks[i].evidence :
                evaluated.checks[i].evidence[j] \in EvidenceUrls

(* C12: whichever fetches throw, evaluatePublic returns all catalogue checks *)
(* and every fetch that threw has an EvidenceRecord of its URL carrying an   *)
(* error string                                                              *)
C12_FailedFetchesRecorded ==
    /\ Complete =>
          /\ {evaluated.checks[i].id : i \in DOMAIN evaluated.checks} = CheckIds
          /\ Len(evaluated.checks) = Len(CHECKS)
    /\ \A failed \in failedUrls :
          \E i \in DOMAIN evidence :
              evidence[i].url = failed /\ evidence[i].error # "none"

(* C13: the number of evidence records equals the number of fetch attempts   *)
(* made so far                                                               *)
C13_OneRecordPerAttempt == Len(evidence) = attempts

(* The origin of scenario 1: a valid manifest at the well-known path, a      *)
(* valid API description at both of its paths, a working tool endpoint,      *)
(* stable docs with meaningful text; moreover a valid plugin manifest, a     *)
(* stable primary entrypoint and no fetch that threw                         *)
IdealOrigin ==
    /\ isSuccessJson(state.airWellKnown) /\ parseJsonBody(state.airWellKnown)
    /\ isSuccessJson(state.openApiRoot) /\ parseJsonBody(state.openApiRoot)
    /\ isSuccessJson(state.openApiWellKnown)
    /\ isSuccessJson(state.aiPlugin) /\ parseJsonBody(state.aiPlugin)
    /\ mcpGetOk /\ mcpInitOk
    /\ entrypointRepeat.url # Undef
    /\ entrypointRepeat.ok /\ entrypointRepeat.stable /\ entrypointRepeat.contentTypeOk
    /\ docsRepeat.url # Undef /\ docsRepeat.ok /\ docsRepeat.stable
    /\ docsText >= MeaningfulLength
    /\ failedUrls = {}

C17_IdealEvaluated == Complete /\ IdealOrigin

-----------------------------------------------------------------------------
(* Properties of fetchRepeated, D2 and L1 *)

ExpectedFamily == JsonLikeTypes \cup YamlLikeTypes \cup TextTypes

(* The i-th fetchOnce call returned a 2xx response *)
Succeeded(i) ==
    /\ ~calls[i].thrown
    /\ calls[i].result.status >= 200 /\ calls[i].result.status < 300

AllSucceeded == \A i \in DOMAIN calls : Succeeded(i)

(* The samples all have the same status and the same content hash *)
SamplesAlike ==
    \A i, j \in DOMAIN repeated.results :
        /\ repeated.results[i].status = repeated.results[j].status
        /\ repeated.results[i].sha256 = repeated.results[j].sha256

Fetched == rpc # "start" /\ known

(* C14: stable is true iff the three samples have the same status and the    *)
(* same content hash; contentTypeOk is true only if all three fetches        *)
(* returned a 2xx status with a content type in the expected family          *)
C14_RepeatFlags ==
    Fetched =>
        /\ repeated.stable <=> SamplesAlike
        /\ repeated.contentTypeOk =>
              /\ AllSucceeded
              /\ \A i \in DOMAIN calls : calls[i].result.contentType \in ExpectedFamily

C20_DocsStatus ==
    rpc = "judged" =>
        /\ judged.l1 = "fail" <=> (~known \/ ~AllSucceeded \/ ~SamplesAlike)
        /\ judged.l1 = "warn" <=>
              (known /\ AllSucceeded /\ SamplesAlike /\ textLength < MeaningfulLength)
        /\ judged.l1 = "pass" <=>
              (known /\ AllSucceeded /\ SamplesAlike /\ textLength >= MeaningfulLength)

-----------------------------------------------------------------------------
(* Properties of aggregateScores *)

PillarOf(id) == CHECKS[CHOOSE i \in DOMAIN CHECKS : CHECKS[i].id = id].pillar

(* The checks of a pillar in the list, and those of them with a status *)
InPillar(pillar) ==
    {i \in DOMAIN scoredChecks : PillarOf(scoredChecks[i].id) = pillar}

WithStatus(pillar, status) ==
    {i \in InPillar(pillar) : scoredChecks[i].status = status}

(* round(100 * (pass + 0.5 * warn) / n), halves rounded up *)
ExpectedPillarScore(pillar) ==
    LET n == Cardinality(InPillar(pillar))
        pass == Cardinality(WithStatus(pillar, "pass"))
        warn == Cardinality(WithStatus(pillar, "warn"))
    IN IF n = 0 THEN 0 ELSE (100 * (2 * pass + warn) + n) \div (2 * n)

(* C15: each pillar score is round(100 * (pass + 0.5 * warn) / n) over the   *)
(* n checks of the pillar in the list, 0 for a pillar with none, and is an   *)
(* integer in 0..100                                                         *)
C15_PillarScores ==
    spc # "start" =>
        \A pillar \in PillarSet :
            /\ scored.pillarScores[pillar] = ExpectedPillarScore(pillar)
            /\ scored.pillarScores[pillar] \in 0..100

(* A list with a pass and a warn in trust and no check of a single-check     *)
(* pillar: trust scores 75 and the empty pillar 0                            *)
C15_Witness ==
    /\ spc = "scored"
    /\ scored.pillarScores["trust"] = 75
    /\ \E pillar \in PillarSet : InPillar(pillar) = {}

RECURSIVE SumOver(_, _)
SumOver(f, S) ==
    IF S = {} THEN 0
    ELSE LET x == CHOOSE y \in S : TRUE
         IN f[x] + SumOver(f, S \ {x})

-----------------------------------------------------------------------------
(* Properties of computeDiff *)

FromStatuses == CheckStatuses \cup {"null"}

(* The rules of the classification *)
ClassOf(from, to) ==
    {class \in {"new", "fixed", "changed", "none"} :
        \/ class = "new" /\ \/ from \in {"null", "pass"} /\ to \in {"warn", "fail"}
                            \/ from = "warn" /\ to = "fail"
        \/ class = "fixed" /\ \/ from \in {"warn", "fail"} /\ to = "pass"
                              \/ from = "fail" /\ to = "warn"
        \/ class = "none" /\ from = to
        \/ class = "changed" /\ from = "null" /\ to = "pass"}

Range(q) == {q[i] : i \in DOMAIN q}

(* The previous status of the n-th current check *)
FromOf(n) ==
    LET before == previousById(previousRun.checks, currentRun.checks[n].id)
    IN IF before = 0 THEN "null" ELSE previousRun.checks[before].status

SeverityBefore(n) ==
    previousRun.checks[previousById(previousRun.checks, currentRun.checks[n].id)].severity

(* C18: every status pair has exactly one class, and each current check is   *)
(* in the list of its class and in no other: new issues with the severity of *)
(* the current check, fixed issues with that of the previous check           *)
C18_Classification ==
    /\ \A from \in FromStatuses, to \in CheckStatuses : Cardinality(ClassOf(from, to)) = 1
    /\ diff.status = "computed" =>
          /\ \A n \in DOMAIN currentRun.checks :
                LET check == currentRun.checks[n]
                    from == FromOf(n)
                    change == [checkId |-> check.id, from |-> from, to |-> check.status]
                    issue(severity) ==
                        [checkId |-> check.id, from |-> from, to |-> check.status,
                         severity |-> severity]
                    listed(q) ==
                        \E i \in DOMAIN q :
                            /\ q[i].checkId = check.id
                            /\ q[i].from = from
                            /\ q[i].to = check.status
                IN /\ "new" \in ClassOf(from, check.status) <=> listed(diff.newIssues)
                   /\ "fixed" \in ClassOf(from, check.status) <=> listed(diff.fixedIssues)
                   /\ "changed" \in ClassOf(from, check.status) <=> listed(diff.changed)
                   /\ listed(diff.newIssues) => issue(check.severity) \in Range(diff.newIssues)
                   /\ listed(diff.fixedIssues) =>
                         issue(SeverityBefore(n)) \in Range(diff.fixedIssues)
                   /\ listed(diff.changed) => change \in Range(diff.changed)
          /\ Len(diff.newIssues) + Len(diff.fixedIssues) + Len(diff.changed)
                = Cardinality({n \in DOMAIN currentRun.checks :
                                   FromOf(n) # currentRun.checks[n].status})
    /\ (dpc = "done" /\ previousRun.null) => diff.status = "null"

(* A diff with a check gone from warn to fail among the new issues and a     *)
(* fixed issue carrying the severity of the previous check                   *)
C18_Witness ==
    /\ diff.status = "computed"
    /\ \E i \in DOMAIN diff.newIssues :
          diff.newIssues[i].from = "warn" /\ diff.newIssues[i].to = "fail"
    /\ \E i \in DOMAIN diff.fixedIssues : diff.fixedIssues[i].severity = "medium"

-----------------------------------------------------------------------------
(* Further properties of runEvaluation *)

(* C22: a request that is rejected before a run starts leaves both run       *)
(* stores and every domain's latestRunId as they were, has no run record in  *)
(* either store, and evaluatePublic (hence any fetch to the origin) was      *)
(* never started for it                                                      *)
C22_RejectionLeavesNoTrace ==
    [][\A h \in Runs :
          /\ (pc[h] # "rejected" /\ pc'[h] = "rejected") =>
                /\ runsOfDomain' = runsOfDomain
                /\ runsRoot' = runsRoot
                /\ latestRunId' = latestRunId
                /\ pc[h] = "idle"
          /\ pc[h] = "rejected" =>
                /\ pc'[h] = "rejected"
                /\ ~runsOfDomain'[h].exists
                /\ ~runsRoot'[h].exists
                /\ outcomeOf'[h] = Null
                /\ \A d \in Domains : latestRunId'[d] # h]_vars

(* A request was rejected while another one's run has completed *)
C22_Witness ==
    \E g, h \in Runs :
        /\ pc[h] = "rejected"
        /\ reply[h] = "rejected"
        /\ pc[g] = "done"
        /\ domain[g] \in Domains
        /\ latestRunId[domain[g]] = g

(* C27: the run a domain's latestRunId names is stored with status complete  *)
(* in both stores, so a run that ended failed is never the latest            *)
C27_LatestRunIsComplete ==
    \A d \in Domains :
        latestRunId[d] # 0 =>
            /\ Field(runsOfDomain[latestRunId[d]], "status") = "complete"
            /\ Field(runsRoot[latestRunId[d]], "status") = "complete"

(* A domain has a latest run while another run of it has ended failed after  *)
(* its finalize had written the run as complete                              *)
C27_Witness ==
    \E g, h \in Runs :
        /\ g # h
        /\ domain[g] \in Domains
        /\ domain[g] = domain[h]
        /\ latestRunId[domain[g]] = g
        /\ pc[h] = "done"
        /\ evaluation[h] # Null
        /\ Field(runsOfDomain[h], "status") = "failed"

(* C28: when a run becomes its domain's latest, its stored diffSummary is    *)
(* the diff against the run that was the latest until then, and it has none  *)
(* only if the domain had no latest run until then                           *)
C28_DiffAgainstReplacedLatest ==
    [][\A h \in Runs :
          (pc[h] = "setDomain" /\ pc'[h] = "done" /\ retrying[h] = "no") =>
              LET replaced == latestRunId[domain[h]]
                  stored == Field(runsOfDomain[h], "diffSummary")
              IN IF replaced = 0 \/ replaced = h
                 THEN stored = Absent("diffSummary")
                 ELSE stored = diffSummaryOf(runsOfDomain[replaced], evaluation[h])]_vars

-----------------------------------------------------------------------------
(* Further properties of evaluatePublic and discover *)

(* The checks of a previous run in which every catalogue check passed *)
AllPassChecks == [n \in DOMAIN CHECKS |-> CheckResult(CHECKS[n].id, "pass", <<>>)]

StatusOfCheck(id) == evaluated.checks[FindCheck(evaluated.checks, id)].status

(* The docs entrypoint answered 2xx three times with bodies that differ *)
DocsUnstable == docsRepeat.url # Undef /\ docsRepeat.ok /\ ~docsRepeat.stable

(* C21: when the docs entrypoint returns 2xx with differing bodies across    *)
(* the three repeat fetches, R3 is fail, L1 is not pass, and computeDiff     *)
(* against a previous run whose checks all passed lists R3 in newIssues      *)
(* with from pass, to fail and severity high                                 *)
C21_UnstableDocs ==
    (Complete /\ DocsUnstable) =>
        /\ StatusOfCheck("R3") = "fail"
        /\ StatusOfCheck("L1") # "pass"
        /\ LET d == computeDiff([null |-> FALSE, checks |-> AllPassChecks],
                                [null |-> FALSE, checks |-> evaluated.checks])
           IN \E i \in DOMAIN d.newIssues :
                 d.newIssues[i] = [checkId |-> "R3", from |-> "pass", to |-> "fail",
                                   severity |-> "high"]

(* The part of C21 about R3 and the diff alone *)
C21_UnstableDocsR3 ==
    (Complete /\ DocsUnstable) =>
        /\ StatusOfCheck("R3") = "fail"
        /\ LET d == computeDiff([null |-> FALSE, checks |-> AllPassChecks],
                                [null |-> FALSE, checks |-> evaluated.checks])
           IN \E i \in DOMAIN d.newIssues :
                 d.newIssues[i] = [checkId |-> "R3", from |-> "pass", to |-> "fail",
                                   severity |-> "high"]

Requested(requested) ==
    requested \in EvidenceUrls \/ requested \in failedUrls

(* C23: when both manifests were fetched successfully the well-known one is  *)
(* the primary entrypoint sampled for D2 and R3, and likewise the well-known *)
(* API description when both API descriptions are the best entrypoints found *)
C23_WellKnownPreferred ==
    Complete =>
        /\ (isSuccessJson(state.airRoot) /\ isSuccessJson(state.airWellKnown)) =>
              entrypointRepeat.url = "/.well-known/air.json"
        /\ (/\ isSuccessJson(state.openApiRoot) /\ isSuccessJson(state.openApiWellKnown)
            /\ state.airRootUrl = Undef /\ state.airWellKnownUrl = Undef
            /\ state.serviceDescUrl = Undef) =>
              entrypointRepeat.url = "/.well-known/openapi.json"

(* C24: once the well-known manifest was fetched successfully the root       *)
(* manifest is not requested, and once an API description was found no       *)
(* lower-priority API description path is requested                          *)
C24_ProbingStops ==
    Complete =>
        /\ isSuccessJson(state.airWellKnown) => ~Requested("/air.json")
        /\ isSuccessJson(state.openApiRoot) => ~Requested("/.well-known/openapi.json")

(* The part of C24 that is about the fallback loop over DISCOVERY_ENDPOINTS *)
C24_FallbackLoopStops ==
    Complete =>
        \A i, j \in DOMAIN DISCOVERY_ENDPOINTS :
            (i < j /\ state.openApiUrl = DISCOVERY_ENDPOINTS[i]) =>
                ~Requested(DISCOVERY_ENDPOINTS[j])

-----------------------------------------------------------------------------
(* Properties of the summaries of D2 and L1 *)

NoneThrown == \A i \in DOMAIN calls : ~calls[i].thrown

(* D2 is warn because the content type is outside the expected family *)
D2WarnForContentType ==
    rpc = "judged" /\ judged.d2 = "warn" /\ ~repeated.contentTypeOk /\ repeated.stable

(* L1 is fail because a repeat fetch returned a non-2xx status *)
L1FailForStatus ==
    rpc = "judged" /\ judged.l1 = "fail" /\ known /\ NoneThrown /\ ~AllSucceeded

(* C25: the summary of a warn or fail check names the cause of the status:   *)
(* D2 at warn for a wrong content type does not say the entrypoint is         *)
(* reachable with a stable response, and L1 at fail for a non-2xx repeat      *)
(* fetch does not say that the content appears thin                           *)
C25_SummaryNamesCause ==
    /\ D2WarnForContentType =>
          judged.d2Summary # "Entrypoint reachable with stable response."
    /\ L1FailForStatus =>
          judged.l1Summary # "Docs entrypoint found but content appears thin."

(* The D2 half and the L1 half of C25 *)
C25_D2SummaryNamesCause ==
    D2WarnForContentType =>
        judged.d2Summary # "Entrypoint reachable with stable response."

C25_L1SummaryNamesCause ==
    L1FailForStatus =>
        judged.l1Summary # "Docs entrypoint found but content appears thin."

-----------------------------------------------------------------------------
(* Monotonicity of aggregateScores *)

(* C30: for every profile and two check lists that differ only in one check  *)
(* being better in the second, every pillar score and the overall score of   *)
(* the second are at least those of the first                                *)
C30_ScoringMonotone ==
    spc = "improved" =>
        /\ \A pillar \in PillarSet :
              rescored.pillarScores[pillar] >= scored.pillarScores[pillar]
        /\ rescored.score >= scored.score

(* A check went from warn to pass and the overall score rose with it *)
C30_Witness ==
    /\ spc = "improved"
    /\ rescored.score > scored.score
    /\ \E pillar \in PillarSet :
          scored.pillarScores[pillar] = 50 /\ rescored.pillarScores[pillar] = 100

-----------------------------------------------------------------------------
(* The repeat sampling of evaluatePublic, fetch by fetch *)

SamplePhases == {"entrypoint", "docs"}

(* evaluatePublic, lines 845 and 854: the URL of the phase is defined *)
HasUrl(phase) == IF phase = "entrypoint" THEN hasEntrypoint ELSE hasDocs

NextPhase(phase) == IF phase = "entrypoint" THEN "docs" ELSE "done"

SamplingStart ==
    /\ smPhase = "entrypoint"
    /\ smLoc = "loop"
    /\ smStarted = 0
    /\ inFlight = {}
    /\ sampled = <<>>
    /\ hasEntrypoint \in BOOLEAN
    /\ hasDocs \in BOOLEAN

(* A loop that calls fetchOnce and goes on without awaiting it *)
StartSampleDetached ==
    /\ smPhase \in SamplePhases
    /\ HasUrl(smPhase)
    /\ smLoc = "loop"
    /\ smStarted < RepeatTimes
    /\ inFlight' = inFlight \cup {[phase |-> smPhase, index |-> smStarted + 1]}
    /\ smStarted' = smStarted + 1
    /\ UNCHANGED <<smPhase, smLoc, sampled, hasEntrypoint, hasDocs>>

(* fetchRepeated, lines 565-567: i < times, fetchOnce(url) is called and the *)
(* function is suspended at the await                                        *)
StartSample ==
    /\ smPhase \in SamplePhases
    /\ HasUrl(smPhase)
    /\ smLoc = "loop"
    /\ smStarted < RepeatTimes
    /\ inFlight' = inFlight \cup {[phase |-> smPhase, index |-> smStarted + 1]}
    /\ smStarted' = smStarted + 1
    /\ smLoc' = "await"
    /\ UNCHANGED <<smPhase, sampled, hasEntrypoint, hasDocs>>

(* The awaited fetchOnce call settles with the given outcome *)
Settles(sampleOutcome) ==
    LET call == [phase |-> smPhase, index |-> smStarted]
    IN /\ smLoc = "await"
       /\ call \in inFlight
       /\ inFlight' = inFlight \ {call}
       /\ sampled' = Append(sampled, [phase |-> call.phase, index |-> call.index,
                                      outcome |-> sampleOutcome])
       /\ smLoc' = "loop"
       /\ UNCHANGED <<smPhase, smStarted, hasEntrypoint, hasDocs>>

(* fetchRepeated, lines 567-568: the awaited call returns a response *)
SampleReturns == \E sha256 \in Hashes : Settles(sha256)

(* fetchRepeated, lines 569-580: the awaited call throws *)
SampleThrows == Settles("thrown")

(* fetchRepeated, lines 565 and 582-591; evaluatePublic, lines 846-850 and   *)
(* 855-862: the loop is left and the awaited fetchRepeated call returns      *)
FetchRepeatedReturns ==
    /\ smPhase \in SamplePhases
    /\ HasUrl(smPhase)
    /\ smLoc = "loop"
    /\ smStarted = RepeatTimes
    /\ smPhase' = NextPhase(smPhase)
    /\ smStarted' = 0
    /\ UNCHANGED <<smLoc, inFlight, sampled, hasEntrypoint, hasDocs>>

(* evaluatePublic, lines 845 and 854: the URL is undefined, no sampling *)
SkipSampling ==
    /\ smPhase \in SamplePhases
    /\ ~HasUrl(smPhase)
    /\ smPhase' = NextPhase(smPhase)
    /\ UNCHANGED <<smLoc, smStarted, inFlight, sampled, hasEntrypoint, hasDocs>>

SamplingInit ==
    SamplingStart /\ FetchParked /\ RunsParked /\ EvalParked /\ RepeatParked /\ ScoreParked
        /\ DiffParked /\ RateParked

SamplingNext ==
    \/ StartSample /\ UNCHANGED nonSampleVars
    \/ SampleReturns /\ UNCHANGED nonSampleVars
    \/ SampleThrows /\ UNCHANGED nonSampleVars
    \/ FetchRepeatedReturns /\ UNCHANGED nonSampleVars
    \/ SkipSampling /\ UNCHANGED nonSampleVars

SpecSampling == SamplingInit /\ [][SamplingNext]_vars

(* The calls that come before a call: the earlier samples of its URL, and    *)
(* for a docs sample every sample of the primary entrypoint                  *)
CallsBefore(call) ==
    {[phase |-> call.phase, index |-> i] : i \in 1..(call.index - 1)}
    \cup (IF call.phase = "docs" /\ hasEntrypoint
          THEN {[phase |-> "entrypoint", index |-> i] : i \in 1..RepeatTimes}
          ELSE {})

SettledBefore(n) == {[phase |-> sampled[i].phase, index |-> sampled[i].index] : i \in 1..n}

(* C26: at most one fetch of the sampling is in flight, a sample is started  *)
(* only after every earlier sample of its URL has returned or thrown, and a  *)
(* docs sample only after all samples of the primary entrypoint have         *)
C26_SequentialSampling ==
    /\ Cardinality(inFlight) <= 1
    /\ \A call \in inFlight : CallsBefore(call) \subseteq SettledBefore(Len(sampled))
    /\ \A n \in DOMAIN sampled :
          CallsBefore([phase |-> sampled[n].phase, index |-> sampled[n].index])
              \subseteq SettledBefore(n - 1)

(* The second docs sample is in flight after an entrypoint sample threw *)
C26_Witness ==
    /\ hasEntrypoint
    /\ inFlight = {[phase |-> "docs", index |-> 2]}
    /\ \E n \in DOMAIN sampled : sampled[n].phase = "entrypoint" /\ sampled[n].outcome = "thrown"
    /\ Len(sampled) = RepeatTimes + 1

-----------------------------------------------------------------------------
(* enforceRateLimit *)

maxRequests == 10

Callers == 1..MaxCallers

(* The ip arguments, character by character: ::1.2.3.4, ::1:2:3:4 and        *)
(* 1.2.3.4                                                                   *)
Ips ==
    {<<":", ":", "1", ".", "2", ".", "3", ".", "4">>,
     <<":", ":", "1", ":", "2", ":", "3", ":", "4">>,
     <<"1", ".", "2", ".", "3", ".", "4">>}

(* Math.floor(Date.now() / windowMs) of the window the callers are in *)
WindowId == "w"

(* ip.replace(/[:.]/g, "_") *)
replaceSeparators(ip) ==
    [i \in DOMAIN ip |-> IF ip[i] \in {":", "."} THEN "_" ELSE ip[i]]

(* enforceRateLimit, line 82 *)
docIdOf(ip, windowId) == replaceSeparators(ip) \o <<"_", windowId>>

DocIds == {docIdOf(ip, WindowId) : ip \in Ips}

RateStart ==
    /\ rlpc = [c \in Callers |-> "idle"]
    /\ rlIp = [c \in Callers |-> <<>>]
    /\ rlRead = [c \in Callers |-> 0]
    /\ rateLimits = [d \in DocIds |-> 0]
    /\ admittedOf = [ip \in Ips |-> 0]

(* enforceRateLimit, lines 85-102, for a request whose transaction overlaps  *)
(* no other: it is admitted                                                  *)
EarlierRequest(ip) ==
    LET docId == docIdOf(ip, WindowId)
    IN /\ \A c \in Callers : rlpc[c] = "idle"
       /\ rateLimits[docId] < maxRequests
       /\ rateLimits' = [rateLimits EXCEPT ![docId] = @ + 1]
       /\ admittedOf' = [admittedOf EXCEPT ![ip] = @ + 1]
       /\ UNCHANGED <<rlpc, rlIp, rlRead>>

(* runEvaluation, lines 690-692: enforceRateLimit(ip) is called *)
Enforce(c, ip) ==
    /\ rlpc[c] = "idle"
    /\ \A b \in Callers : b < c => rlpc[b] # "idle"
    /\ rlIp' = [rlIp EXCEPT ![c] = ip]
    /\ rlpc' = [rlpc EXCEPT ![c] = "get"]
    /\ UNCHANGED <<rlRead, rateLimits, admittedOf>>

(* enforceRateLimit, lines 86-90: tx.get, and the throw at the limit, which  *)
(* ends the transaction and is answered with 429 (lines 693-695)             *)
TxGet(c) ==
    /\ rlpc[c] = "get"
    /\ LET count == rateLimits[docIdOf(rlIp[c], WindowId)]
       IN /\ rlRead' = [rlRead EXCEPT ![c] = count]
          /\ rlpc' = [rlpc EXCEPT ![c] = IF count >= maxRequests THEN "rejected" ELSE "set"]
    /\ UNCHANGED <<rlIp, rateLimits, admittedOf>>

(* A commit that never finds the document changed *)
TxConflictNever(c) == FALSE

(* db.runTransaction: the document read by the transaction was written      *)
(* since                                                                     *)
TxConflict(c) == rateLimits[docIdOf(rlIp[c], WindowId)] # rlRead[c]

(* enforceRateLimit, lines 91-102: tx.set and the commit; on a conflict the  *)
(* update function is run again                                              *)
TxCommit(c) ==
    /\ rlpc[c] = "set"
    /\ IF TxConflict(c)
       THEN /\ rlpc' = [rlpc EXCEPT ![c] = "get"]
            /\ UNCHANGED <<rateLimits, admittedOf>>
       ELSE /\ rateLimits' = [rateLimits EXCEPT ![docIdOf(rlIp[c], WindowId)] = rlRead[c] + 1]
            /\ admittedOf' = [admittedOf EXCEPT ![rlIp[c]] = @ + 1]
            /\ rlpc' = [rlpc EXCEPT ![c] = "admitted"]
    /\ UNCHANGED <<rlIp, rlRead>>

RateInit ==
    RateStart /\ FetchParked /\ RunsParked /\ EvalParked /\ RepeatParked /\ ScoreParked
        /\ DiffParked /\ SamplingParked

RateNext ==
    \/ (\E ip \in Ips : EarlierRequest(ip)) /\ UNCHANGED nonRateVars
    \/ (\E c \in Callers, ip \in Ips : Enforce(c, ip)) /\ UNCHANGED nonRateVars
    \/ (\E c \in Callers : TxGet(c)) /\ UNCHANGED nonRateVars
    \/ (\E c \in Callers : TxCommit(c)) /\ UNCHANGED nonRateVars

SpecRate == RateInit /\ [][RateNext]_vars

(* C29: for every ip, in the window at most maxRequests requests of the ip   *)
(* pass enforceRateLimit under any interleaving, and the stored counter of   *)
(* the ip's window equals the number of its requests that were admitted and  *)
(* never exceeds maxRequests                                                 *)
C29_RateLimit ==
    \A ip \in Ips :
        /\ admittedOf[ip] <= maxRequests
        /\ rateLimits[docIdOf(ip, WindowId)] = admittedOf[ip]
        /\ rateLimits[docIdOf(ip, WindowId)] <= maxRequests

(* The part of C29 about the limit: no ip passes more than maxRequests times *)
(* and no counter exceeds maxRequests                                        *)
C29_AtMostMaxAdmitted ==
    /\ \A ip \in Ips : admittedOf[ip] <= maxRequests
    /\ \A d \in DocIds : rateLimits[d] <= maxRequests

(* The counter of a document is the number of requests admitted under any   *)
(* ip whose docId it is                                                      *)
C29_CounterCountsDocument ==
    \A d \in DocIds :
        rateLimits[d] = SumOver(admittedOf, {ip \in Ips : docIdOf(ip, WindowId) = d})

====
